---- MODULE Spec2Model ----
(***************************************************************************)
(* Metrical canonicalisation and accentual responsion of aristophanis-    *)
(* cantica (stats.py, stats_barys.py, main.py), as a state machine.        *)
(*                                                                         *)
(* A syllable (<syll> element) is a record of the attributes the code      *)
(* reads: weight ("heavy", "light", or "" when the attribute is absent or  *)
(* anything else), the four flags (TRUE iff the attribute equals the       *)
(* string 'True') and accent, the set of accent categories of which the    *)
(* normalised text holds at least one character.                           *)
(***************************************************************************)
EXTENDS Integers, Sequences, FiniteSets, TLC

VARIABLES
    lineA, lineB,     \* the line(s) the operation is applied to
    pc,               \* position in the running operation
    i, result,        \* cursor and accumulator of the running loop
    unit_ordinal,     \* counter of build_units_for_accent's loop
    units1, units2,   \* build_units_for_accent of each line
    ret,              \* value returned
    args,             \* arguments of a function on syllables
    strophe, antistrophe,   \* the two <strophe> elements of a strophe pair
    log,              \* what has been printed, in order
    tree,             \* the <strophe> elements of the parsed file, in document order
    responsion_numbers,     \* responsions the running loop has still to take
    overall_counts, responsion_summaries,   \* process_responsions
    barys_totals, barys_summaries,          \* process_barys_responsions
    summary_args,     \* what the significance step of print_combined_summary reads
    futures_dict, colored_ids,              \* print_combined_summary
    completed         \* the cantica whose task has finished, in order of completion

stropheVars == <<strophe, antistrophe>>
loopVars == <<unit_ordinal>>
summaryVars == <<summary_args, futures_dict, colored_ids, completed>>
mainVars == <<tree, responsion_numbers, overall_counts, responsion_summaries,
              barys_totals, barys_summaries>>

vars == <<lineA, lineB, pc, i, result, units1, units2, ret, args,
          stropheVars, log, mainVars, summaryVars, loopVars>>

(***************************************************************************)
(* Bounds of the model.                                                    *)
(***************************************************************************)
\* Longest line, in syllables, of the single-line specifications.
MaxLen == 2
\* Most lines of a strophe in SpecStrophe.
MaxLines == 2
\* Most <strophe> elements of a tree, and most lines of one, in SpecMain.
MaxStrophes == 4
MaxCanticumLines == 3
\* Most lines given to the polystrophic classifier in SpecPoly.
MaxPoly == 3
\* Most trials (acute + circumflex of the file) in SpecSummary.
MaxTrials == 2
\* Most strophes in the tree, and most lines in a strophe, in SpecPolyMain.
MaxPolyStrophes == 3
MaxGroupLines == 1
\* Most <l> elements in the text, and most syllables in one, in SpecCompile.
MaxXmlLines == 1
MaxLineSylls == 3
\* Most responding lines, and most positions of a line, in SpecComp.
MaxResp == 3
\* Longest line of SpecLoops.
MaxCursorLen == 4
\* Most lines of a strophe in SpecDenominators.
MaxDenominatorLines == 3
\* Most arguments of the main program in SpecArgs.
MaxArgs == 2
MaxPositions == 1

(***************************************************************************)
(* Syllables and lines.                                                    *)
(***************************************************************************)
Weights == {"heavy", "light", ""}

accents == {"acute", "grave", "circumflex"}

Syll(w, an, re, co, br, ac) ==
    [weight |-> w, anceps |-> an, resolution |-> re, contraction |-> co,
     brevis_in_longo |-> br, accent |-> ac]

\* Every combination of the attributes canonical_sylls reads, unaccented.
MetricalSylls ==
    {Syll(w, an, re, co, br, {}) :
        w \in Weights, an \in BOOLEAN, re \in BOOLEAN, co \in BOOLEAN, br \in BOOLEAN}

(***************************************************************************)
(* stats.py, canonical_sylls: one iteration of the while loop at cursor i  *)
(* (0-based, as in the code; syllables[i] is sylls[i + 1] here).           *)
(***************************************************************************)
CanonStepAncepsFirst(sylls, j) ==
    LET current == sylls[j + 1]
    IN  IF current.anceps
        THEN [emit |-> <<"anceps">>, adv |-> 1]
        ELSE IF current.resolution /\ j + 1 < Len(sylls) /\ sylls[j + 2].resolution
        THEN [emit |-> <<"heavy">>, adv |-> 2]
        ELSE IF current.contraction /\ current.weight = "heavy"
        THEN [emit |-> <<"light", "light">>, adv |-> 1]
        ELSE IF current.brevis_in_longo
        THEN [emit |-> <<"heavy">>, adv |-> 1]
        ELSE [emit |-> <<IF current.weight \in {"heavy", "light"}
                         THEN current.weight ELSE "light">>, adv |-> 1]

CanonStepMergesAnyNext(sylls, j) ==
    LET current == sylls[j + 1]
    IN  IF current.resolution /\ j + 1 < Len(sylls)
        THEN [emit |-> <<"heavy">>, adv |-> 2]
        ELSE IF current.anceps
        THEN [emit |-> <<"anceps">>, adv |-> 1]
        ELSE IF current.contraction /\ current.weight = "heavy"
        THEN [emit |-> <<"light", "light">>, adv |-> 1]
        ELSE IF current.brevis_in_longo
        THEN [emit |-> <<"heavy">>, adv |-> 1]
        ELSE [emit |-> <<IF current.weight \in {"heavy", "light"}
                         THEN current.weight ELSE "light">>, adv |-> 1]

CanonStepSwapsWeight(sylls, j) ==
    LET current == sylls[j + 1]
    IN  IF current.resolution /\ j + 1 < Len(sylls) /\ sylls[j + 2].resolution
        THEN [emit |-> <<"heavy">>, adv |-> 2]
        ELSE IF current.anceps
        THEN [emit |-> <<"anceps">>, adv |-> 1]
        ELSE IF current.contraction /\ current.weight = "heavy"
        THEN [emit |-> <<"light", "light">>, adv |-> 1]
        ELSE IF current.brevis_in_longo
        THEN [emit |-> <<"heavy">>, adv |-> 1]
        ELSE [emit |-> <<IF current.weight = "light" THEN "heavy" ELSE "light">>, adv |-> 1]

CanonStep(sylls, j) ==
    LET current == sylls[j + 1]
        is_anceps == current.anceps
        is_res == current.resolution
        is_contraction == current.contraction
        is_brevis_in_longo == current.brevis_in_longo
        current_weight == current.weight
    IN  IF is_res /\ j + 1 < Len(sylls) /\ sylls[j + 2].resolution
        THEN [emit |-> <<"heavy">>, adv |-> 2]
        ELSE IF is_anceps
        THEN [emit |-> <<"anceps">>, adv |-> 1]
        ELSE IF is_contraction /\ current_weight = "heavy"
        THEN [emit |-> <<"light", "light">>, adv |-> 1]
        ELSE IF is_brevis_in_longo
        THEN [emit |-> <<"heavy">>, adv |-> 1]
        ELSE [emit |-> <<IF current_weight \in {"heavy", "light"}
                         THEN current_weight ELSE "light">>, adv |-> 1]

\* canonical_sylls as a function of the line: the loop run to its end.
RECURSIVE CanonFrom(_, _)
CanonFrom(sylls, j) ==
    IF j < Len(sylls)
    THEN LET st == CanonStep(sylls, j)
         IN  st.emit \o CanonFrom(sylls, j + st.adv)
    ELSE <<>>

canonical_sylls(sylls) == CanonFrom(sylls, 0)

(***************************************************************************)
(* stats.py, metrically_responding_lines: the length test, then the zip    *)
(* loop with its early return.                                             *)
(***************************************************************************)
RECURSIVE ZipResponds(_, _, _)
ZipResponds(c1, c2, k) ==
    IF k > Len(c1) \/ k > Len(c2) THEN TRUE
    ELSE IF c1[k] = "anceps" \/ c2[k] = "anceps" THEN ZipResponds(c1, c2, k + 1)
    ELSE IF c1[k] # c2[k] THEN FALSE
    ELSE ZipResponds(c1, c2, k + 1)

RespondingStropheAncepsOnly(strophe_line, antistrophe_line) ==
    LET c1 == canonical_sylls(strophe_line)
        c2 == canonical_sylls(antistrophe_line)
    IN  /\ Len(c1) = Len(c2)
        /\ \A k \in 1..Len(c1) : c1[k] = "anceps" \/ c1[k] = c2[k]

RespondingNoLengthTest(strophe_line, antistrophe_line) ==
    ZipResponds(canonical_sylls(strophe_line), canonical_sylls(antistrophe_line), 1)

metrically_responding_lines(strophe_line, antistrophe_line) ==
    LET c1 == canonical_sylls(strophe_line)
        c2 == canonical_sylls(antistrophe_line)
    IN  IF Len(c1) # Len(c2) THEN FALSE ELSE ZipResponds(c1, c2, 1)

(***************************************************************************)
(* stats.py, build_units_for_accent.  A line is the sequence of its <syll> *)
(* elements, line_n its n attribute.  A unit keeps its syllables as their  *)
(* positions in the line (1-based): syll for a single, syll1 and syll2 for *)
(* a double.                                                               *)
(***************************************************************************)
SingleUnit(p, ord, line_n) ==
    [type |-> "single", syll |-> p, syll1 |-> 0, syll2 |-> 0,
     unit_ord |-> ord, line_n |-> line_n]
DoubleUnit(p, ord, line_n) ==
    [type |-> "double", syll |-> 0, syll1 |-> p, syll2 |-> p + 1,
     unit_ord |-> ord, line_n |-> line_n]

RECURSIVE UnitsFrom(_, _, _, _)
UnitsFrom(sylls, line_n, j, ordinal) ==
    IF j < Len(sylls)
    THEN IF sylls[j + 1].resolution /\ j + 1 < Len(sylls) /\ sylls[j + 2].resolution
         THEN <<DoubleUnit(j + 1, ordinal, line_n)>>
              \o UnitsFrom(sylls, line_n, j + 2, ordinal + 1)
         ELSE <<SingleUnit(j + 1, ordinal, line_n)>>
              \o UnitsFrom(sylls, line_n, j + 1, ordinal + 1)
    ELSE <<>>

build_units_for_accent(line, line_n) == UnitsFrom(line, line_n, 0, 1)

\* The n attributes of the two lines of the line-pair specifications.
StropheLineN == <<"strophe", 1>>
AntistropheLineN == <<"antistrophe", 1>>

has_acute(syll) == "acute" \in syll.accent

has_circumflex(syll) == "circumflex" \in syll.accent

is_heavy(syll) == syll.weight = "heavy"

(***************************************************************************)
(* A match record {(line_n, unit_ord): text, (line_n, unit_ord): text}:    *)
(* the entry of the strophe line's unit us and that of the antistrophe     *)
(* line's unit ua (the two lines carry different n).  A text is the        *)
(* sequence of positions (in its own line) of the syllables whose texts it *)
(* concatenates.                                                           *)
(***************************************************************************)
Match(us, s_text, ua, a_text) ==
    [s_line |-> us.line_n, s_ord |-> us.unit_ord, s_text |-> s_text,
     a_line |-> ua.line_n, a_ord |-> ua.unit_ord, a_text |-> a_text]

\* accent_lists[0], [1], [2] of the code are lists[1], [2], [3] here.
AccentOrder == <<"acute", "grave", "circumflex">>

Append3(lists, n, m) == [lists EXCEPT ![n] = Append(@, m)]

(***************************************************************************)
(* stats.py, do_single_vs_single.                                          *)
(***************************************************************************)
SingleVsSingleEitherAccent(sA, sB, u1, u2, accent_lists) ==
    [n \in 1..3 |->
        IF AccentOrder[n] \in sA[u1.syll].accent \/ AccentOrder[n] \in sB[u2.syll].accent
        THEN Append(accent_lists[n],
                    Match(u1, <<u1.syll>>, u2, <<u2.syll>>))
        ELSE accent_lists[n]]

do_single_vs_single(sA, sB, u1, u2, accent_lists) ==
    LET s_syll == sA[u1.syll]
        a_syll == sB[u2.syll]
        m == Match(u1, <<u1.syll>>, u2, <<u2.syll>>)
    IN  [n \in 1..3 |->
            IF AccentOrder[n] \in s_syll.accent /\ AccentOrder[n] \in a_syll.accent
            THEN Append(accent_lists[n], m)
            ELSE accent_lists[n]]

(***************************************************************************)
(* stats.py, do_double_vs_double.                                          *)
(***************************************************************************)
DoubleVsDoubleAnyPosition(sA, sB, u1, u2, accent_lists) ==
    IF (has_acute(sA[u1.syll1]) \/ has_acute(sA[u1.syll2]))
       /\ (has_acute(sB[u2.syll1]) \/ has_acute(sB[u2.syll2]))
    THEN Append3(accent_lists, 1,
                 Match(u1, <<u1.syll1>>, u2, <<u2.syll1>>))
    ELSE accent_lists

do_double_vs_double(sA, sB, u1, u2, accent_lists) ==
    LET strophe_first_acute == has_acute(sA[u1.syll1])
        strophe_second_acute == has_acute(sA[u1.syll2])
        anti_first_acute == has_acute(sB[u2.syll1])
        anti_second_acute == has_acute(sB[u2.syll2])
        after_a ==
            IF strophe_first_acute /\ anti_first_acute
            THEN Append3(accent_lists, 1,
                         Match(u1, <<u1.syll1>>, u2, <<u2.syll1>>))
            ELSE accent_lists
    IN  IF strophe_second_acute /\ anti_second_acute
        THEN Append3(after_a, 1,
                     Match(u1, <<u1.syll2>>, u2, <<u2.syll2>>))
        ELSE after_a

(***************************************************************************)
(* stats.py, do_double_vs_single.  sD is the line of the double unit, sS   *)
(* the line of the single one; double_is_strophe tells which of the two    *)
(* is the strophe line, i.e. under which key each text is stored.          *)
(***************************************************************************)
DoubleVsSingleAnyWeight(sD, sS, u_double, u_single, double_is_strophe, accent_lists) ==
    IF has_acute(sD[u_double.syll2]) /\ has_acute(sS[u_single.syll])
    THEN Append3(accent_lists, 1,
                 IF double_is_strophe
                 THEN Match(u_double, <<u_double.syll2>>, u_single, <<u_single.syll>>)
                 ELSE Match(u_single, <<u_single.syll>>, u_double, <<u_double.syll2>>))
    ELSE accent_lists

do_double_vs_single(sD, sS, u_double, u_single, double_is_strophe, accent_lists) ==
    LET d2 == sD[u_double.syll2]
        s_syll == sS[u_single.syll]
    IN  IF ~is_heavy(s_syll) THEN accent_lists
        ELSE IF has_acute(d2) /\ has_acute(s_syll)
        THEN Append3(accent_lists, 1,
                     IF double_is_strophe
                     THEN Match(u_double, <<u_double.syll2>>, u_single, <<u_single.syll>>)
                     ELSE Match(u_single, <<u_single.syll>>, u_double, <<u_double.syll2>>))
        ELSE accent_lists

(***************************************************************************)
(* stats.py, accentually_responding_syllables_of_line_pair: the body of    *)
(* the loop over zip(units1, units2).                                      *)
(***************************************************************************)
AccUnitPair(sA, sB, u1, u2, accent_lists) ==
    IF u1.unit_ord # u2.unit_ord THEN accent_lists
    ELSE IF u1.type = "single" /\ u2.type = "single"
    THEN do_single_vs_single(sA, sB, u1, u2, accent_lists)
    ELSE IF u1.type = "double" /\ u2.type = "double"
    THEN do_double_vs_double(sA, sB, u1, u2, accent_lists)
    ELSE IF u1.type = "double" /\ u2.type = "single"
    THEN do_double_vs_single(sA, sB, u1, u2, TRUE, accent_lists)
    ELSE IF u1.type = "single" /\ u2.type = "double"
    THEN do_double_vs_single(sB, sA, u2, u1, FALSE, accent_lists)
    ELSE accent_lists

(***************************************************************************)
(* stats_barys.py, barys_responsion.  A preceding syllable is optional:    *)
(* None is <<>>, a syllable s is <<s>>.                                    *)
(***************************************************************************)
None == <<>>
Some(syll) == <<syll>>

BarysEitherCircumflex(syll1, syll2, prev_syll1, prev_syll2) ==
    LET c1 == has_circumflex(syll1)
        c2 == has_circumflex(syll2)
        h1 == is_heavy(syll1)
        h2 == is_heavy(syll2)
        prev_acute_1 == prev_syll1 # None /\ has_acute(prev_syll1[1])
        prev_acute_2 == prev_syll2 # None /\ has_acute(prev_syll2[1])
    IN  \/ c1 \/ c2
        \/ h1 /\ h2 /\ prev_acute_1 /\ prev_acute_2

BarysOneSidedAcute(syll1, syll2, prev_syll1, prev_syll2) ==
    LET c1 == has_circumflex(syll1)
        c2 == has_circumflex(syll2)
        h1 == is_heavy(syll1)
        h2 == is_heavy(syll2)
        prev_acute_1 == prev_syll1 # None /\ has_acute(prev_syll1[1])
        prev_acute_2 == prev_syll2 # None /\ has_acute(prev_syll2[1])
    IN  \/ c1 /\ c2
        \/ h1 /\ h2 /\ (prev_acute_1 \/ prev_acute_2)
        \/ c1 /\ h2 /\ prev_acute_2
        \/ c2 /\ h1 /\ prev_acute_1

barys_responsion(syll1, syll2, prev_syll1, prev_syll2) ==
    LET c1 == has_circumflex(syll1)
        c2 == has_circumflex(syll2)
        h1 == is_heavy(syll1)
        h2 == is_heavy(syll2)
        prev_acute_1 == prev_syll1 # None /\ has_acute(prev_syll1[1])
        prev_acute_2 == prev_syll2 # None /\ has_acute(prev_syll2[1])
        meets_2_for_syll1 == h1 /\ prev_acute_1
        meets_2_for_syll2 == h2 /\ prev_acute_2
    IN  IF c1 /\ c2 THEN TRUE
        ELSE IF h1 /\ h2 /\ prev_acute_1 /\ prev_acute_2 THEN TRUE
        ELSE IF (c1 /\ meets_2_for_syll2) \/ (c2 /\ meets_2_for_syll1) THEN TRUE
        ELSE FALSE

(***************************************************************************)
(* stats_barys.py, next_syll_is_light_or_none and                          *)
(* oxys_responsion_single_syllables; idx is the syllable's position in     *)
(* all_sylls (1-based).                                                    *)
(***************************************************************************)
NextSyllNotHeavy(idx, all_sylls) ==
    IF idx = Len(all_sylls) THEN TRUE
    ELSE all_sylls[idx + 1].weight # "heavy"

next_syll_is_light_or_none(idx, all_sylls) ==
    IF idx = Len(all_sylls) THEN TRUE
    ELSE all_sylls[idx + 1].weight = "light"

oxys_responsion_single_syllables(s_idx, a_idx, all_sylls_1, all_sylls_2) ==
    IF ~has_acute(all_sylls_1[s_idx]) THEN FALSE
    ELSE IF ~has_acute(all_sylls_2[a_idx]) THEN FALSE
    ELSE IF ~next_syll_is_light_or_none(s_idx, all_sylls_1) THEN FALSE
    ELSE IF ~next_syll_is_light_or_none(a_idx, all_sylls_2) THEN FALSE
    ELSE TRUE

\* stats_barys.py 64-73, count_all_barys_oxys: the syllable counts as a
\* potential barys.
potential_barys(syll, prev_syll) ==
    LET is_circumflex == has_circumflex(syll)
        is_heavy_with_prev_acute ==
            is_heavy(syll) /\ prev_syll # None /\ has_acute(prev_syll[1])
    IN  is_circumflex \/ is_heavy_with_prev_acute

(***************************************************************************)
(* stats_barys.py, get_barys_print_text and get_oxys_print_text: the text  *)
(* of the syllable at idx, with the previous (barys, unless circumflex) or *)
(* the next (oxys) syllable's text joined to it; prev and next are         *)
(* positions, 0 for None.                                                  *)
(***************************************************************************)
get_barys_print_text(sylls, idx, prev) ==
    IF has_circumflex(sylls[idx]) THEN <<idx>>
    ELSE IF prev # 0 THEN <<prev, idx>>
    ELSE <<idx>>

get_oxys_print_text(idx, next) ==
    IF next = 0 THEN <<idx>> ELSE <<idx, next>>

\* get_prev and get_next of do_barys_single_vs_single.
get_prev(idx) == IF idx > 1 THEN idx - 1 ELSE 0
get_next(idx, all_sylls) == IF idx < Len(all_sylls) THEN idx + 1 ELSE 0

Opt(sylls, p) == IF p = 0 THEN None ELSE Some(sylls[p])

(***************************************************************************)
(* stats_barys.py, do_barys_single_vs_single, do_barys_double_vs_double,   *)
(* do_barys_double_vs_single.  lists is <<barys_list, oxys_list>>.         *)
(***************************************************************************)
do_barys_single_vs_single(u1, u2, lists, all_sylls_1, all_sylls_2) ==
    LET prev_s == get_prev(u1.syll)
        prev_a == get_prev(u2.syll)
    IN  IF barys_responsion(all_sylls_1[u1.syll], all_sylls_2[u2.syll],
                            Opt(all_sylls_1, prev_s), Opt(all_sylls_2, prev_a))
        THEN [lists EXCEPT ![1] = Append(@,
                Match(u1, get_barys_print_text(all_sylls_1, u1.syll, prev_s), u2, get_barys_print_text(all_sylls_2, u2.syll, prev_a)))]
        ELSE IF oxys_responsion_single_syllables(u1.syll, u2.syll, all_sylls_1, all_sylls_2)
        THEN [lists EXCEPT ![2] = Append(@,
                Match(u1, get_oxys_print_text(u1.syll, get_next(u1.syll, all_sylls_1)), u2, get_oxys_print_text(u2.syll, get_next(u2.syll, all_sylls_2))))]
        ELSE lists

do_barys_double_vs_double(sA, sB, u1, u2, lists) ==
    IF barys_responsion(sA[u1.syll2], sB[u2.syll2], Some(sA[u1.syll1]), Some(sB[u2.syll1]))
    THEN [lists EXCEPT ![1] = Append(@,
            Match(u1, get_barys_print_text(sA, u1.syll2, u1.syll1), u2, get_barys_print_text(sB, u2.syll2, u2.syll1)))]
    ELSE lists

do_barys_double_vs_single(sD, sS, u_double, u_single, double_is_strophe, lists) ==
    IF barys_responsion(sD[u_double.syll2], sS[u_single.syll], Some(sD[u_double.syll1]), None)
    THEN LET strophe_text == get_barys_print_text(sD, u_double.syll2, u_double.syll1)
             anti_text == <<u_single.syll>>
         IN  [lists EXCEPT ![1] = Append(@,
                IF double_is_strophe
                THEN Match(u_double, strophe_text, u_single, anti_text)
                ELSE Match(u_single, anti_text, u_double, strophe_text))]
    ELSE lists

(***************************************************************************)
(* stats_barys.py, barys_accentually_responding_syllables_of_line_pair:    *)
(* the body of the loop over zip(units1, units2).                          *)
(***************************************************************************)
BarysUnitPair(sA, sB, u1, u2, lists) ==
    IF u1.unit_ord # u2.unit_ord THEN lists
    ELSE IF u1.type = "single" /\ u2.type = "single"
    THEN do_barys_single_vs_single(u1, u2, lists, sA, sB)
    ELSE IF u1.type = "double" /\ u2.type = "double"
    THEN do_barys_double_vs_double(sA, sB, u1, u2, lists)
    ELSE IF u1.type = "double" /\ u2.type = "single"
    THEN do_barys_double_vs_single(sA, sB, u1, u2, TRUE, lists)
    ELSE IF u1.type = "single" /\ u2.type = "double"
    THEN do_barys_double_vs_single(sB, sA, u2, u1, FALSE, lists)
    ELSE lists

\* The value False the functions return on failure, and a returned list.
Failure == [ok |-> FALSE, lists |-> <<>>]
Returned(lists) == [ok |-> TRUE, lists |-> lists]

GateOpen(strophe_line, antistrophe_line) == TRUE

\* The guard at the head of accentually_responding_syllables_of_line_pair
\* and of barys_accentually_responding_syllables_of_line_pair.
line_pair_gate(strophe_line, antistrophe_line) ==
    metrically_responding_lines(strophe_line, antistrophe_line)

(***************************************************************************)
(* stats.py, accentually_responding_syllables_of_line_pair, and            *)
(* stats_barys.py, barys_accentually_responding_syllables_of_line_pair, as *)
(* functions of the two lines (their syllables and their n).               *)
(***************************************************************************)
RECURSIVE AccUnitLoop(_, _, _, _, _, _)
AccUnitLoop(sA, sB, u1s, u2s, k, accent_lists) ==
    IF k < Len(u1s)
    THEN AccUnitLoop(sA, sB, u1s, u2s, k + 1,
                     AccUnitPair(sA, sB, u1s[k + 1], u2s[k + 1], accent_lists))
    ELSE accent_lists

accentually_responding_syllables_of_line_pair(strophe_line, s_n, antistrophe_line, a_n) ==
    IF ~line_pair_gate(strophe_line, antistrophe_line) THEN Failure
    ELSE LET u1s == build_units_for_accent(strophe_line, s_n)
             u2s == build_units_for_accent(antistrophe_line, a_n)
         IN  IF Len(u1s) # Len(u2s) THEN Failure
             ELSE Returned(AccUnitLoop(strophe_line, antistrophe_line, u1s, u2s, 0,
                                       << <<>>, <<>>, <<>> >>))

RECURSIVE BarysUnitLoop(_, _, _, _, _, _)
BarysUnitLoop(sA, sB, u1s, u2s, k, lists) ==
    IF k < Len(u1s)
    THEN BarysUnitLoop(sA, sB, u1s, u2s, k + 1,
                       BarysUnitPair(sA, sB, u1s[k + 1], u2s[k + 1], lists))
    ELSE lists

barys_accentually_responding_syllables_of_line_pair(strophe_line, s_n, antistrophe_line, a_n) ==
    IF ~line_pair_gate(strophe_line, antistrophe_line) THEN Failure
    ELSE LET u1s == build_units_for_accent(strophe_line, s_n)
             u2s == build_units_for_accent(antistrophe_line, a_n)
         IN  IF Len(u1s) # Len(u2s) THEN Failure
             ELSE Returned(BarysUnitLoop(strophe_line, antistrophe_line, u1s, u2s, 0,
                                         << <<>>, <<>> >>))

(***************************************************************************)
(* stats.py, accentually_responding_syllables_of_strophe_pair, and         *)
(* stats_barys.py, barys_accentually_responding_syllables_of_strophe_pair. *)
(* A <strophe> element is a record of its type, its responsion and the     *)
(* sequence of its <l> children; the n of its k-th line is LineN.  The     *)
(* value of a call is what it returns (ret) and what it prints (printed).  *)
(***************************************************************************)
LineN(element, k) == <<element.type, k>>

DoNotRespond(s_n, a_n) ==
    [msg |-> "Lines do not metrically respond", s_line |-> s_n, a_line |-> a_n]

ExtendLists(combined, lists) ==
    [n \in DOMAIN combined |-> combined[n] \o lists[n]]

RECURSIVE StropheLineLoop(_, _, _, _)
StropheLineLoop(st, an, k, combined_accent_lists) ==
    IF k < Len(st.lines)
    THEN LET s_line == st.lines[k + 1]
             a_line == an.lines[k + 1]
             line_accent_lists ==
                 accentually_responding_syllables_of_line_pair(
                     s_line, LineN(st, k + 1), a_line, LineN(an, k + 1))
         IN  IF ~metrically_responding_lines(s_line, a_line)
             THEN [ret |-> Failure,
                   printed |-> <<DoNotRespond(LineN(st, k + 1), LineN(an, k + 1))>>]
             ELSE IF ~line_accent_lists.ok
             THEN [ret |-> Failure, printed |-> <<>>]
             ELSE StropheLineLoop(st, an, k + 1,
                                  ExtendLists(combined_accent_lists, line_accent_lists.lists))
    ELSE [ret |-> Returned(combined_accent_lists), printed |-> <<>>]

accentually_responding_syllables_of_strophe_pair(st, an) ==
    IF st.responsion # an.responsion THEN [ret |-> Failure, printed |-> <<>>]
    ELSE IF Len(st.lines) # Len(an.lines) THEN [ret |-> Failure, printed |-> <<>>]
    ELSE StropheLineLoop(st, an, 0, << <<>>, <<>>, <<>> >>)

RECURSIVE BarysStropheLineLoop(_, _, _, _)
BarysStropheLineLoop(st, an, k, combined) ==
    IF k < Len(st.lines)
    THEN LET s_line == st.lines[k + 1]
             a_line == an.lines[k + 1]
             line_barys_oxys ==
                 barys_accentually_responding_syllables_of_line_pair(
                     s_line, LineN(st, k + 1), a_line, LineN(an, k + 1))
         IN  IF ~metrically_responding_lines(s_line, a_line)
             THEN [ret |-> Failure,
                   printed |-> <<DoNotRespond(LineN(st, k + 1), LineN(an, k + 1))>>]
             ELSE IF ~line_barys_oxys.ok
             THEN [ret |-> Failure, printed |-> <<>>]
             ELSE BarysStropheLineLoop(st, an, k + 1,
                                       ExtendLists(combined, line_barys_oxys.lists))
    ELSE [ret |-> Returned(combined), printed |-> <<>>]

barys_accentually_responding_syllables_of_strophe_pair(st, an) ==
    IF st.responsion # an.responsion THEN [ret |-> Failure, printed |-> <<>>]
    ELSE IF Len(st.lines) # Len(an.lines) THEN [ret |-> Failure, printed |-> <<>>]
    ELSE BarysStropheLineLoop(st, an, 0, << <<>>, <<>> >>)

(***************************************************************************)
(* src/stats_barys.py (polystrophic version),                              *)
(* barys_accentually_responding_syllables_of_lines: lines is the           *)
(* sequence of the lines (their syllables), ns that of their n.  A match   *)
(* is a dict with one entry per line: keys[j] = (line_n, unit_ord) and     *)
(* texts[j] for line j.                                                    *)
(***************************************************************************)
\* stats.metrically_responding_lines_polystrophic: every two of the lines
\* respond.
metrically_responding_lines_polystrophic(lines) ==
    \A a \in DOMAIN lines : \A b \in DOMAIN lines :
        metrically_responding_lines(lines[a], lines[b])

DoNotRespondPoly(ns) == [msg |-> "Lines do not metrically respond", lines |-> ns]
UnitCountMismatch(ns) == [msg |-> "Unit count mismatch across lines", lines |-> ns]

PolyMatch(units, texts) ==
    [keys  |-> [j \in DOMAIN units |-> <<units[j].line_n, units[j].unit_ord>>],
     texts |-> texts]

\* sylls: u['syll'] of a single, u['syll2'] of a double.
unit_syll(u) == IF u.type = "single" THEN u.syll ELSE u.syll2

SomeOtherBarys(lines, sylls, prev_sylls) ==
    \E j \in DOMAIN lines \ {1} :
        barys_responsion(lines[j][sylls[j]], lines[1][sylls[1]],
                         Opt(lines[j], prev_sylls[j]), Opt(lines[1], prev_sylls[1]))

\* The two all(...) tests, each line against the first.
all_barys(lines, sylls, prev_sylls) ==
    \A j \in DOMAIN lines :
        barys_responsion(lines[j][sylls[j]], lines[1][sylls[1]],
                         Opt(lines[j], prev_sylls[j]), Opt(lines[1], prev_sylls[1]))

all_oxys(lines, sylls) ==
    \A j \in DOMAIN lines :
        oxys_responsion_single_syllables(sylls[j], sylls[1], lines[j], lines[1])

RECURSIVE PolyUnitLoop(_, _, _, _)
PolyUnitLoop(lines, all_units, unit_idx, lists) ==
    IF unit_idx < Len(all_units[1])
    THEN LET units == [j \in DOMAIN lines |-> all_units[j][unit_idx + 1]]
             sylls == [j \in DOMAIN lines |-> unit_syll(units[j])]
             prev_sylls == [j \in DOMAIN lines |-> get_prev(sylls[j])]
             next_sylls == [j \in DOMAIN lines |-> get_next(sylls[j], lines[j])]
             barys_list ==
                 IF all_barys(lines, sylls, prev_sylls)
                 THEN Append(lists[1],
                             PolyMatch(units, [j \in DOMAIN lines |->
                                 get_barys_print_text(lines[j], sylls[j], prev_sylls[j])]))
                 ELSE lists[1]
             oxys_list ==
                 IF all_oxys(lines, sylls)
                 THEN Append(lists[2],
                             PolyMatch(units, [j \in DOMAIN lines |->
                                 get_oxys_print_text(sylls[j], next_sylls[j])]))
                 ELSE lists[2]
         IN  PolyUnitLoop(lines, all_units, unit_idx + 1, <<barys_list, oxys_list>>)
    ELSE lists

barys_accentually_responding_syllables_of_lines(lines, ns) ==
    IF ~metrically_responding_lines_polystrophic(lines)
    THEN [ret |-> Failure, printed |-> <<DoNotRespondPoly(ns)>>]
    ELSE LET all_units == [j \in DOMAIN lines |-> build_units_for_accent(lines[j], ns[j])]
         IN  IF \E j \in DOMAIN lines : Len(all_units[j]) # Len(all_units[1])
             THEN [ret |-> Failure, printed |-> <<UnitCountMismatch(ns)>>]
             ELSE [ret |-> Returned(PolyUnitLoop(lines, all_units, 0, << <<>>, <<>> >>)),
                   printed |-> <<>>]

(***************************************************************************)
(* main.py, get_all_responsion_numbers, process_responsions and            *)
(* process_barys_responsions.  The tree is the sequence of its <strophe>   *)
(* elements in document order, each with a responsion.                     *)
(***************************************************************************)
get_all_responsion_numbers(t) == { t[k].responsion : k \in DOMAIN t }

\* tree.xpath('//strophe[@type="..." and @responsion="..."]').
xpath(t, type, responsion) ==
    SelectSeq(t, LAMBDA e : e.type = type /\ e.responsion = responsion)

MismatchInLineCount(responsion, strophes, antistrophes) ==
    [msg |-> "Mismatch in line count for responsion", responsion |-> responsion,
     strophes |-> Len(strophes), antistrophes |-> Len(antistrophes)]

\* The counters of process_responsions and of process_barys_responsions.
ZeroAccents == [acute |-> 0, grave |-> 0, circumflex |-> 0]
ZeroBarys == [barys |-> 0, oxys |-> 0]

\* main.py 59-64: the loop over zip(strophes, antistrophes); its value is
\* the counts and what the calls printed.
RECURSIVE AccentPairsLoop(_, _, _, _, _)
AccentPairsLoop(strophes, antistrophes, k, counts, printed) ==
    IF k < Len(strophes) /\ k < Len(antistrophes)
    THEN LET call == accentually_responding_syllables_of_strophe_pair(
                         strophes[k + 1], antistrophes[k + 1])
             accent_maps == call.ret
         IN  AccentPairsLoop(strophes, antistrophes, k + 1,
                 IF accent_maps.ok
                 THEN [acute      |-> counts.acute + Len(accent_maps.lists[1]),
                       grave      |-> counts.grave + Len(accent_maps.lists[2]),
                       circumflex |-> counts.circumflex + Len(accent_maps.lists[3])]
                 ELSE counts,
                 printed \o call.printed)
    ELSE [counts |-> counts, printed |-> printed]

\* main.py 90-96.
RECURSIVE BarysPairsLoop(_, _, _, _, _)
BarysPairsLoop(strophes, antistrophes, k, counts, printed) ==
    IF k < Len(strophes) /\ k < Len(antistrophes)
    THEN LET call == barys_accentually_responding_syllables_of_strophe_pair(
                         strophes[k + 1], antistrophes[k + 1])
             barys_maps == call.ret
         IN  BarysPairsLoop(strophes, antistrophes, k + 1,
                 IF barys_maps.ok
                 THEN [barys |-> counts.barys + Len(barys_maps.lists[1]),
                       oxys  |-> counts.oxys + Len(barys_maps.lists[2])]
                 ELSE counts,
                 printed \o call.printed)
    ELSE [counts |-> counts, printed |-> printed]

\* summaries[responsion] = counts.
Store(summaries, responsion, counts) ==
    [r \in DOMAIN summaries \cup {responsion} |->
        IF r = responsion THEN counts ELSE summaries[r]]

\* The state of the operations that are not running.
IdleSummary ==
    /\ summary_args = <<>>
    /\ futures_dict = <<>>
    /\ colored_ids = <<>>
    /\ completed = <<>>
IdleStrophe == strophe = <<>> /\ antistrophe = <<>>
IdleLoop == unit_ordinal = 0
IdleMain ==
    /\ tree = <<>>
    /\ responsion_numbers = {}
    /\ overall_counts = ZeroAccents
    /\ responsion_summaries = <<>>
    /\ barys_totals = ZeroBarys
    /\ barys_summaries = <<>>

(***************************************************************************)
(* Specification SpecCanon: canonical_sylls run on one line, one loop      *)
(* iteration per step.                                                     *)
(***************************************************************************)
InitCanon ==
    /\ \E m \in 0..MaxLen : lineA \in [1..m -> MetricalSylls]
    /\ lineB = <<>>
    /\ pc = "canon_loop"
    /\ i = 0
    /\ result = <<>>
    /\ units1 = <<>>
    /\ units2 = <<>>
    /\ ret = <<>>
    /\ args = <<>>
    /\ IdleStrophe
    /\ log = <<>>
    /\ IdleSummary
    /\ IdleLoop
    /\ IdleMain

CanonIter ==
    /\ pc = "canon_loop"
    /\ i < Len(lineA)
    /\ LET st == CanonStep(lineA, i)
       IN  /\ result' = result \o st.emit
           /\ i' = i + st.adv
    /\ UNCHANGED <<lineA, lineB, pc, units1, units2, ret>>
    /\ UNCHANGED <<args, stropheVars, summaryVars, loopVars, log, mainVars>>

CanonReturn ==
    /\ pc = "canon_loop"
    /\ ~(i < Len(lineA))
    /\ ret' = result
    /\ pc' = "canon_done"
    /\ UNCHANGED <<lineA, lineB, i, result, units1, units2>>
    /\ UNCHANGED <<args, stropheVars, summaryVars, loopVars, log, mainVars>>

NextCanon == CanonIter \/ CanonReturn

SpecCanon == InitCanon /\ [][NextCanon]_vars

(***************************************************************************)
(* Specification SpecPair: the three operations on a pair of lines,        *)
(* metrically_responding_lines, accentually_responding_syllables_of_       *)
(* line_pair and barys_accentually_responding_syllables_of_line_pair,      *)
(* the last two one unit pair per step.  The lines are made of the         *)
(* syllable kinds of the canonical_sylls tests (unittest_canonical.py),    *)
(* two of them also with an acute.                                         *)
(***************************************************************************)
PairSylls ==
    { Syll("heavy", FALSE, FALSE, FALSE, FALSE, {}),
      Syll("light", FALSE, FALSE, FALSE, FALSE, {}),
      Syll("light", FALSE, TRUE,  FALSE, FALSE, {}),
      Syll("light", TRUE,  FALSE, FALSE, FALSE, {}),
      Syll("heavy", FALSE, FALSE, TRUE,  FALSE, {}),
      Syll("light", FALSE, FALSE, FALSE, TRUE,  {}),
      Syll("heavy", FALSE, FALSE, FALSE, FALSE, {"acute"}),
      Syll("light", FALSE, TRUE,  FALSE, FALSE, {"acute"}) }

InitPair ==
    /\ \E m \in 0..MaxLen : lineA \in [1..m -> PairSylls]
    /\ \E m \in 0..MaxLen : lineB \in [1..m -> PairSylls]
    /\ pc = "pair_start"
    /\ i = 0
    /\ result = <<>>
    /\ units1 = <<>>
    /\ units2 = <<>>
    /\ ret = <<>>
    /\ args = <<>>
    /\ IdleStrophe
    /\ log = <<>>
    /\ IdleSummary
    /\ IdleLoop
    /\ IdleMain

\* metrically_responding_lines(lineA, lineB).
MRCall ==
    /\ pc = "pair_start"
    /\ ret' = metrically_responding_lines(lineA, lineB)
    /\ pc' = "mr_done"
    /\ UNCHANGED <<lineA, lineB, i, result, units1, units2>>
    /\ UNCHANGED <<args, stropheVars, summaryVars, loopVars, log, mainVars>>

\* accentually_responding_syllables_of_line_pair, stats.py 352-353.
AccNotResponding ==
    /\ pc = "pair_start"
    /\ ~line_pair_gate(lineA, lineB)
    /\ ret' = Failure
    /\ pc' = "acc_done"
    /\ UNCHANGED <<lineA, lineB, i, result, units1, units2>>
    /\ UNCHANGED <<args, stropheVars, summaryVars, loopVars, log, mainVars>>

\* stats.py 355-359.
AccUnitMismatch ==
    /\ pc = "pair_start"
    /\ line_pair_gate(lineA, lineB)
    /\ units1' = build_units_for_accent(lineA, StropheLineN)
    /\ units2' = build_units_for_accent(lineB, AntistropheLineN)
    /\ Len(units1') # Len(units2')
    /\ ret' = Failure
    /\ pc' = "acc_done"
    /\ UNCHANGED <<lineA, lineB, i, result>>
    /\ UNCHANGED <<args, stropheVars, summaryVars, loopVars, log, mainVars>>

\* stats.py 355-361.
AccBegin ==
    /\ pc = "pair_start"
    /\ line_pair_gate(lineA, lineB)
    /\ units1' = build_units_for_accent(lineA, StropheLineN)
    /\ units2' = build_units_for_accent(lineB, AntistropheLineN)
    /\ Len(units1') = Len(units2')
    /\ result' = << <<>>, <<>>, <<>> >>
    /\ i' = 0
    /\ pc' = "acc_loop"
    /\ UNCHANGED <<lineA, lineB, ret>>
    /\ UNCHANGED <<args, stropheVars, summaryVars, loopVars, log, mainVars>>

\* stats.py 363-383, one pair of zip(units1, units2).
AccUnit ==
    /\ pc = "acc_loop"
    /\ i < Len(units1)
    /\ result' = AccUnitPair(lineA, lineB, units1[i + 1], units2[i + 1], result)
    /\ i' = i + 1
    /\ UNCHANGED <<lineA, lineB, pc, units1, units2, ret>>
    /\ UNCHANGED <<args, stropheVars, summaryVars, loopVars, log, mainVars>>

\* stats.py 385.
AccReturn ==
    /\ pc = "acc_loop"
    /\ ~(i < Len(units1))
    /\ ret' = Returned(result)
    /\ pc' = "acc_done"
    /\ UNCHANGED <<lineA, lineB, i, result, units1, units2>>
    /\ UNCHANGED <<args, stropheVars, summaryVars, loopVars, log, mainVars>>

\* barys_accentually_responding_syllables_of_line_pair, stats_barys.py 316-317.
BarysNotResponding ==
    /\ pc = "pair_start"
    /\ ~line_pair_gate(lineA, lineB)
    /\ ret' = Failure
    /\ pc' = "barys_done"
    /\ UNCHANGED <<lineA, lineB, i, result, units1, units2>>
    /\ UNCHANGED <<args, stropheVars, summaryVars, loopVars, log, mainVars>>

\* stats_barys.py 319-323.
BarysUnitMismatch ==
    /\ pc = "pair_start"
    /\ line_pair_gate(lineA, lineB)
    /\ units1' = build_units_for_accent(lineA, StropheLineN)
    /\ units2' = build_units_for_accent(lineB, AntistropheLineN)
    /\ Len(units1') # Len(units2')
    /\ ret' = Failure
    /\ pc' = "barys_done"
    /\ UNCHANGED <<lineA, lineB, i, result>>
    /\ UNCHANGED <<args, stropheVars, summaryVars, loopVars, log, mainVars>>

\* stats_barys.py 319-329.
BarysBegin ==
    /\ pc = "pair_start"
    /\ line_pair_gate(lineA, lineB)
    /\ units1' = build_units_for_accent(lineA, StropheLineN)
    /\ units2' = build_units_for_accent(lineB, AntistropheLineN)
    /\ Len(units1') = Len(units2')
    /\ result' = << <<>>, <<>> >>
    /\ i' = 0
    /\ pc' = "barys_loop"
    /\ UNCHANGED <<lineA, lineB, ret>>
    /\ UNCHANGED <<args, stropheVars, summaryVars, loopVars, log, mainVars>>

\* stats_barys.py 331-349, one pair of zip(units1, units2).
BarysUnit ==
    /\ pc = "barys_loop"
    /\ i < Len(units1)
    /\ result' = BarysUnitPair(lineA, lineB, units1[i + 1], units2[i + 1], result)
    /\ i' = i + 1
    /\ UNCHANGED <<lineA, lineB, pc, units1, units2, ret>>
    /\ UNCHANGED <<args, stropheVars, summaryVars, loopVars, log, mainVars>>

\* stats_barys.py 351.
BarysReturn ==
    /\ pc = "barys_loop"
    /\ ~(i < Len(units1))
    /\ ret' = Returned(result)
    /\ pc' = "barys_done"
    /\ UNCHANGED <<lineA, lineB, i, result, units1, units2>>
    /\ UNCHANGED <<args, stropheVars, summaryVars, loopVars, log, mainVars>>

NextAcc == AccNotResponding \/ AccUnitMismatch \/ AccBegin \/ AccUnit \/ AccReturn

NextBarys ==
    BarysNotResponding \/ BarysUnitMismatch \/ BarysBegin \/ BarysUnit \/ BarysReturn

NextPair == MRCall \/ NextAcc \/ NextBarys

SpecPair == InitPair /\ [][NextPair]_vars

(***************************************************************************)
(* Specification SpecUnits: accentually_responding_syllables_of_line_pair  *)
(* on lines of accented syllables: heavy singles without accent, with an   *)
(* acute, with acute and circumflex, with grave and circumflex; resolved   *)
(* lights without accent, with an acute, with a grave; a light anceps with *)
(* an acute; a contracted heavy.                                           *)
(***************************************************************************)
UnitSylls ==
    { Syll("heavy", FALSE, FALSE, FALSE, FALSE, {}),
      Syll("heavy", FALSE, FALSE, FALSE, FALSE, {"acute"}),
      Syll("heavy", FALSE, FALSE, FALSE, FALSE, {"acute", "circumflex"}),
      Syll("heavy", FALSE, FALSE, FALSE, FALSE, {"grave", "circumflex"}),
      Syll("light", FALSE, TRUE,  FALSE, FALSE, {}),
      Syll("light", FALSE, TRUE,  FALSE, FALSE, {"acute"}),
      Syll("light", FALSE, TRUE,  FALSE, FALSE, {"grave"}),
      Syll("light", TRUE,  FALSE, FALSE, FALSE, {"acute"}),
      Syll("heavy", FALSE, FALSE, TRUE,  FALSE, {}) }

InitUnits ==
    /\ \E m \in 0..MaxLen : lineA \in [1..m -> UnitSylls]
    /\ \E m \in 0..MaxLen : lineB \in [1..m -> UnitSylls]
    /\ pc = "pair_start"
    /\ i = 0
    /\ result = <<>>
    /\ units1 = <<>>
    /\ units2 = <<>>
    /\ ret = <<>>
    /\ args = <<>>
    /\ IdleStrophe
    /\ log = <<>>
    /\ IdleSummary
    /\ IdleLoop
    /\ IdleMain

SpecUnits == InitUnits /\ [][NextAcc]_vars

(***************************************************************************)
(* Specification SpecBarysFn: barys_responsion applied to two syllables    *)
(* and their optional predecessors.  Only weight and accent are read, so   *)
(* the syllables range over every weight and every set of accents.         *)
(***************************************************************************)
AccentedSylls ==
    { Syll(w, FALSE, FALSE, FALSE, FALSE, ac) : w \in Weights, ac \in SUBSET accents }

OptionalSylls == {None} \cup { Some(s) : s \in AccentedSylls }

InitBarysFn ==
    /\ args \in [syll1 : AccentedSylls, syll2 : AccentedSylls,
                  prev_syll1 : OptionalSylls, prev_syll2 : OptionalSylls]
    /\ lineA = <<>>
    /\ lineB = <<>>
    /\ pc = "fn_start"
    /\ i = 0
    /\ result = <<>>
    /\ units1 = <<>>
    /\ units2 = <<>>
    /\ ret = <<>>
    /\ IdleStrophe
    /\ log = <<>>
    /\ IdleSummary
    /\ IdleLoop
    /\ IdleMain

BarysResponsionCall ==
    /\ pc = "fn_start"
    /\ ret' = barys_responsion(args.syll1, args.syll2, args.prev_syll1, args.prev_syll2)
    /\ pc' = "barys_fn_done"
    /\ UNCHANGED <<lineA, lineB, i, result, units1, units2, args>>
    /\ UNCHANGED <<stropheVars, summaryVars, loopVars, log, mainVars>>

NextBarysFn == BarysResponsionCall

SpecBarysFn == InitBarysFn /\ [][NextBarysFn]_vars

(***************************************************************************)
(* Specification SpecStrophe: the two strophe-pair functions applied to a  *)
(* strophe and an antistrophe of at most MaxLines lines each.  The lines   *)
(* are: heavy with acute + light; heavy with circumflex + heavy with       *)
(* acute; heavy with acute + heavy; one contracted heavy; two lights.      *)
(***************************************************************************)
Heavy0 == Syll("heavy", FALSE, FALSE, FALSE, FALSE, {})
HeavyAcute == Syll("heavy", FALSE, FALSE, FALSE, FALSE, {"acute"})
HeavyCircumflex == Syll("heavy", FALSE, FALSE, FALSE, FALSE, {"circumflex"})
HeavyContracted == Syll("heavy", FALSE, FALSE, TRUE, FALSE, {})
Light0 == Syll("light", FALSE, FALSE, FALSE, FALSE, {})

StropheLines ==
    { <<HeavyAcute, Light0>>,
      <<HeavyCircumflex, HeavyAcute>>,
      <<HeavyAcute, Heavy0>>,
      <<HeavyContracted>>,
      <<Light0, Light0>> }

Responsions == {"r1", "r2"}

Elements(type, lines_of) ==
    { [type |-> type, responsion |-> r, lines |-> ls] : r \in Responsions, ls \in lines_of }

InitStrophe ==
    /\ \E m \in 0..MaxLines :
          strophe \in Elements("strophe", [1..m -> StropheLines])
    /\ \E m \in 0..MaxLines :
          antistrophe \in Elements("antistrophe", [1..m -> StropheLines])
    /\ lineA = <<>>
    /\ lineB = <<>>
    /\ pc = "strophe_start"
    /\ i = 0
    /\ result = <<>>
    /\ units1 = <<>>
    /\ units2 = <<>>
    /\ ret = <<>>
    /\ args = <<>>
    /\ log = <<>>
    /\ IdleSummary
    /\ IdleLoop
    /\ IdleMain

StrophePairCall ==
    /\ pc = "strophe_start"
    /\ LET call == accentually_responding_syllables_of_strophe_pair(strophe, antistrophe)
       IN  /\ ret' = call.ret
           /\ log' = log \o call.printed
    /\ pc' = "strophe_acc_done"
    /\ UNCHANGED <<lineA, lineB, i, result, units1, units2, args, stropheVars, summaryVars, loopVars, mainVars>>

BarysStrophePairCall ==
    /\ pc = "strophe_start"
    /\ LET call == barys_accentually_responding_syllables_of_strophe_pair(strophe, antistrophe)
       IN  /\ ret' = call.ret
           /\ log' = log \o call.printed
    /\ pc' = "strophe_barys_done"
    /\ UNCHANGED <<lineA, lineB, i, result, units1, units2, args, stropheVars, summaryVars, loopVars, mainVars>>

NextStrophe == StrophePairCall \/ BarysStrophePairCall

SpecStrophe == InitStrophe /\ [][NextStrophe]_vars

(***************************************************************************)
(* Specification SpecMain: main.py on one file: the responsions of the     *)
(* tree are collected, process_responsions takes them one per step in any  *)
(* order (they are a set), then process_barys_responsions does.  The tree  *)
(* has at most MaxStrophes <strophe> elements, each of MaxCanticumLines or   *)
(* one line fewer; every line is heavy with circumflex + heavy with acute + *)
(* light with grave, so that two such lines give one match of each of the   *)
(* five kinds.                                                              *)
(***************************************************************************)
LightGrave == Syll("light", FALSE, FALSE, FALSE, FALSE, {"grave"})
CanticumLine == <<HeavyCircumflex, HeavyAcute, LightGrave>>

CanticumElements ==
    UNION { Elements(type, { [k \in 1..n |-> CanticumLine] :
                                 n \in (MaxCanticumLines - 1)..MaxCanticumLines })
            : type \in {"strophe", "antistrophe"} }

InitMain ==
    /\ \E m \in 0..MaxStrophes : tree \in [1..m -> CanticumElements]
    /\ responsion_numbers = {}
    /\ overall_counts = ZeroAccents
    /\ responsion_summaries = <<>>
    /\ barys_totals = ZeroBarys
    /\ barys_summaries = <<>>
    /\ lineA = <<>>
    /\ lineB = <<>>
    /\ pc = "main_start"
    /\ i = 0
    /\ result = <<>>
    /\ units1 = <<>>
    /\ units2 = <<>>
    /\ ret = <<>>
    /\ args = <<>>
    /\ IdleStrophe
    /\ log = <<>>
    /\ IdleSummary
    /\ IdleLoop

\* main.py 262-263, 275.
GetResponsions ==
    /\ pc = "main_start"
    /\ responsion_numbers' = get_all_responsion_numbers(tree)
    /\ pc' = "process_responsions"
    /\ UNCHANGED <<tree, overall_counts, responsion_summaries, barys_totals, barys_summaries>>
    /\ UNCHANGED <<lineA, lineB, i, result, units1, units2, ret, args, stropheVars, summaryVars, loopVars, log>>

\* main.py 50-56: the numbers of strophes and of antistrophes differ.
ResponsionMismatch ==
    /\ pc = "process_responsions"
    /\ \E responsion \in responsion_numbers :
          LET strophes == xpath(tree, "strophe", responsion)
              antistrophes == xpath(tree, "antistrophe", responsion)
          IN  /\ Len(strophes) # Len(antistrophes)
              /\ log' = Append(log, MismatchInLineCount(responsion, strophes, antistrophes))
              /\ responsion_numbers' = responsion_numbers \ {responsion}
    /\ UNCHANGED <<tree, overall_counts, responsion_summaries, barys_totals, barys_summaries>>
    /\ UNCHANGED <<lineA, lineB, pc, i, result, units1, units2, ret, args, stropheVars, summaryVars, loopVars>>

\* main.py 50-71.
ResponsionPairs ==
    /\ pc = "process_responsions"
    /\ \E responsion \in responsion_numbers :
          LET strophes == xpath(tree, "strophe", responsion)
              antistrophes == xpath(tree, "antistrophe", responsion)
              loop == AccentPairsLoop(strophes, antistrophes, 0, ZeroAccents, <<>>)
              counts == loop.counts
          IN  /\ Len(strophes) = Len(antistrophes)
              /\ log' = log \o loop.printed
              /\ responsion_summaries' = Store(responsion_summaries, responsion, counts)
              /\ overall_counts' =
                    [acute      |-> overall_counts.acute + counts.acute,
                     grave      |-> overall_counts.grave + counts.grave,
                     circumflex |-> overall_counts.circumflex + counts.circumflex]
              /\ responsion_numbers' = responsion_numbers \ {responsion}
    /\ UNCHANGED <<tree, barys_totals, barys_summaries>>
    /\ UNCHANGED <<lineA, lineB, pc, i, result, units1, units2, ret, args, stropheVars, summaryVars, loopVars>>

\* main.py 73 and 279: process_responsions returns, process_barys_responsions
\* is called with the same responsions.
ProcessResponsionsReturn ==
    /\ pc = "process_responsions"
    /\ responsion_numbers = {}
    /\ responsion_numbers' = get_all_responsion_numbers(tree)
    /\ pc' = "process_barys_responsions"
    /\ UNCHANGED <<tree, overall_counts, responsion_summaries, barys_totals, barys_summaries>>
    /\ UNCHANGED <<lineA, lineB, i, result, units1, units2, ret, args, stropheVars, summaryVars, loopVars, log>>

\* main.py 81-88.
BarysResponsionMismatch ==
    /\ pc = "process_barys_responsions"
    /\ \E responsion \in responsion_numbers :
          LET strophes == xpath(tree, "strophe", responsion)
              antistrophes == xpath(tree, "antistrophe", responsion)
          IN  /\ Len(strophes) # Len(antistrophes)
              /\ log' = Append(log, MismatchInLineCount(responsion, strophes, antistrophes))
              /\ responsion_numbers' = responsion_numbers \ {responsion}
    /\ UNCHANGED <<tree, overall_counts, responsion_summaries, barys_totals, barys_summaries>>
    /\ UNCHANGED <<lineA, lineB, pc, i, result, units1, units2, ret, args, stropheVars, summaryVars, loopVars>>

\* main.py 81-103.
BarysResponsionPairs ==
    /\ pc = "process_barys_responsions"
    /\ \E responsion \in responsion_numbers :
          LET strophes == xpath(tree, "strophe", responsion)
              antistrophes == xpath(tree, "antistrophe", responsion)
              loop == BarysPairsLoop(strophes, antistrophes, 0, ZeroBarys, <<>>)
              counts == loop.counts
          IN  /\ Len(strophes) = Len(antistrophes)
              /\ log' = log \o loop.printed
              /\ barys_summaries' = Store(barys_summaries, responsion, counts)
              /\ barys_totals' = [barys |-> barys_totals.barys + counts.barys,
                                  oxys  |-> barys_totals.oxys + counts.oxys]
              /\ responsion_numbers' = responsion_numbers \ {responsion}
    /\ UNCHANGED <<tree, overall_counts, responsion_summaries>>
    /\ UNCHANGED <<lineA, lineB, pc, i, result, units1, units2, ret, args, stropheVars, summaryVars, loopVars>>

\* main.py 105.
ProcessBarysReturn ==
    /\ pc = "process_barys_responsions"
    /\ responsion_numbers = {}
    /\ pc' = "main_done"
    /\ UNCHANGED mainVars
    /\ UNCHANGED <<lineA, lineB, i, result, units1, units2, ret, args, stropheVars, summaryVars, loopVars, log>>

NextMain ==
    \/ GetResponsions
    \/ ResponsionMismatch \/ ResponsionPairs \/ ProcessResponsionsReturn
    \/ BarysResponsionMismatch \/ BarysResponsionPairs \/ ProcessBarysReturn

SpecMain == InitMain /\ [][NextMain]_vars

(***************************************************************************)
(* Specification SpecOxysFn: oxys_responsion_single_syllables applied to   *)
(* a syllable of each of two lines of 1 to MaxLen syllables.  Only weight  *)
(* and the acute are read, so the syllables range over every weight, with  *)
(* and without an acute.                                                   *)
(***************************************************************************)
OxysSylls ==
    { Syll(w, FALSE, FALSE, FALSE, FALSE, ac) : w \in Weights, ac \in {{}, {"acute"}} }

InitOxysFn ==
    /\ \E m1 \in 1..MaxLen, m2 \in 1..MaxLen :
          args \in [all_sylls_1 : [1..m1 -> OxysSylls], s_idx : 1..m1,
                    all_sylls_2 : [1..m2 -> OxysSylls], a_idx : 1..m2]
    /\ lineA = <<>>
    /\ lineB = <<>>
    /\ pc = "fn_start"
    /\ i = 0
    /\ result = <<>>
    /\ units1 = <<>>
    /\ units2 = <<>>
    /\ ret = <<>>
    /\ IdleStrophe
    /\ log = <<>>
    /\ IdleSummary
    /\ IdleLoop
    /\ IdleMain

OxysResponsionCall ==
    /\ pc = "fn_start"
    /\ ret' = oxys_responsion_single_syllables(args.s_idx, args.a_idx,
                                               args.all_sylls_1, args.all_sylls_2)
    /\ pc' = "oxys_fn_done"
    /\ UNCHANGED <<lineA, lineB, i, result, units1, units2, args>>
    /\ UNCHANGED <<stropheVars, summaryVars, loopVars, log, mainVars>>

NextOxysFn == OxysResponsionCall

SpecOxysFn == InitOxysFn /\ [][NextOxysFn]_vars

(***************************************************************************)
(* Specification SpecPoly: the polystrophic classifier                     *)
(* barys_accentually_responding_syllables_of_lines applied to 2 to MaxPoly *)
(* lines, and the pairwise classifier applied to two.  The lines: six of   *)
(* canonical shape heavy, heavy, light (the second unit barys and oxys,    *)
(* barys only, oxys only, circumflex, no accent, a resolved pair with an   *)
(* acute), a shorter line, and a contracted heavy with the two lights it   *)
(* responds to.                                                            *)
(***************************************************************************)
LightRes == Syll("light", FALSE, TRUE, FALSE, FALSE, {})
LightResAcute == Syll("light", FALSE, TRUE, FALSE, FALSE, {"acute"})
LightResCircumflex == Syll("light", FALSE, TRUE, FALSE, FALSE, {"circumflex"})

PolyLines ==
    { <<HeavyAcute, HeavyAcute, Light0>>,
      <<HeavyAcute, Heavy0, Light0>>,
      <<Heavy0, HeavyAcute, Light0>>,
      <<HeavyCircumflex, HeavyCircumflex, Light0>>,
      <<Heavy0, Heavy0, Light0>>,
      <<HeavyAcute, LightRes, LightResAcute, Light0>>,
      <<Heavy0, LightRes, LightResCircumflex>>,
      <<HeavyAcute, Heavy0>>,
      <<Heavy0, Light0>>,
      <<HeavyContracted>>,
      <<Light0, Light0>> }

InitPoly ==
    /\ \E n \in 2..MaxPoly :
          args \in [lines : [1..n -> PolyLines], ns : {[j \in 1..n |-> <<"l", j>>]}]
    /\ lineA = <<>>
    /\ lineB = <<>>
    /\ pc = "poly_start"
    /\ i = 0
    /\ result = <<>>
    /\ units1 = <<>>
    /\ units2 = <<>>
    /\ ret = <<>>
    /\ IdleStrophe
    /\ log = <<>>
    /\ IdleSummary
    /\ IdleLoop
    /\ IdleMain

PolyBarysCall ==
    /\ pc = "poly_start"
    /\ LET call == barys_accentually_responding_syllables_of_lines(args.lines, args.ns)
       IN  /\ ret' = call.ret
           /\ log' = log \o call.printed
    /\ pc' = "poly_done"
    /\ UNCHANGED <<lineA, lineB, i, result, units1, units2, args, stropheVars, summaryVars, loopVars, mainVars>>

\* stats_barys.py, barys_accentually_responding_syllables_of_line_pair on
\* the same two lines.
PairBarysCall ==
    /\ pc = "poly_start"
    /\ Len(args.lines) = 2
    /\ ret' = barys_accentually_responding_syllables_of_line_pair(
                  args.lines[1], args.ns[1], args.lines[2], args.ns[2])
    /\ pc' = "pair_barys_done"
    /\ UNCHANGED <<lineA, lineB, i, result, units1, units2, args, stropheVars, summaryVars, loopVars, log, mainVars>>

NextPoly == PolyBarysCall \/ PairBarysCall

SpecPoly == InitPoly /\ [][NextPoly]_vars

(***************************************************************************)
(* Specification SpecSummary: the significance step of                     *)
(* print_combined_summary (main.py 153-186).  The main thread submits one  *)
(* task per canticum in sorted order, the worker threads of the pool run   *)
(* the submitted tasks in any order, leaving the with block waits for all  *)
(* of them, and the main thread then takes the results in sorted order.    *)
(*                                                                         *)
(* summary_args holds what the step reads: the cantica, the successes of   *)
(* each (acute + circumflex of resp_summaries), total_acute_plus_circum,   *)
(* whether SignificanceTester has the method is_below_05 that main.py      *)
(* submits (significance.py defines test_significance and is_above_05      *)
(* only), and what that method does with its arguments: it returns TRUE or *)
(* FALSE or raises, as a function of the successes (the trials are the     *)
(* same for all tasks).                                                    *)
(***************************************************************************)
SortedIds == <<"r1", "r2", "r3">>

\* sorted(responsion_numbers).
sorted(ids) == SelectSeq(SortedIds, LAMBDA r : r \in ids)

Outcomes == {"True", "False", "raises"}

RED(r) == [id |-> r, colour |-> "RED"]
GREEN(r) == [id |-> r, colour |-> "GREEN"]

NoFuture == [state |-> "None", outcome |-> "none"]
Pending(successes) == [state |-> "pending", successes |-> successes, outcome |-> "none"]
Finished(outcome) == [state |-> "finished", outcome |-> outcome]

IsBuggy(r) == [msg |-> "Canticum is buggy!", responsion |-> r]
Cantica(ids) == [msg |-> "Cantica", ids |-> ids]

JoinedInCompletionOrder(r, k, order) == IF k \in DOMAIN order THEN order[k] ELSE r

\* main.py 179: the future taken for canticum r, the k-th of the sorted
\* cantica, is futures_dict[r].
joined(r, k, order) == r

InitSummary ==
    /\ \E ids \in SUBSET {SortedIds[k] : k \in DOMAIN SortedIds}, total \in 0..MaxTrials :
          summary_args \in [responsion_numbers : {ids},
                            successes : [ids -> 0..total],
                            total_acute_plus_circum : {total},
                            has_is_below_05 : BOOLEAN,
                            is_below_05 : [0..MaxTrials -> Outcomes]]
    /\ futures_dict = <<>>
    /\ colored_ids = <<>>
    /\ completed = <<>>
    /\ pc = "summary_submit"
    /\ i = 0
    /\ IdleLoop
    /\ lineA = <<>>
    /\ lineB = <<>>
    /\ result = <<>>
    /\ units1 = <<>>
    /\ units2 = <<>>
    /\ ret = <<>>
    /\ args = <<>>
    /\ IdleStrophe
    /\ log = <<>>
    /\ IdleMain

SummaryIdle ==
    UNCHANGED <<lineA, lineB, result, units1, units2, ret, args, stropheVars, mainVars, loopVars>>

\* main.py 154-162: no acute or circumflex at all.
SubmitNone ==
    /\ pc = "summary_submit"
    /\ i < Len(sorted(summary_args.responsion_numbers))
    /\ summary_args.total_acute_plus_circum = 0
    /\ LET r == sorted(summary_args.responsion_numbers)[i + 1]
       IN  /\ futures_dict' = Store(futures_dict, r, NoFuture)
           /\ log' = Append(log, IsBuggy(r))
    /\ i' = i + 1
    /\ UNCHANGED <<pc, summary_args, colored_ids, completed>>
    /\ SummaryIdle

\* main.py 165-170: sign_tester.is_below_05 is not an attribute of
\* SignificanceTester; the AttributeError leaves print_combined_summary.
SubmitRaises ==
    /\ pc = "summary_submit"
    /\ i < Len(sorted(summary_args.responsion_numbers))
    /\ summary_args.total_acute_plus_circum # 0
    /\ ~summary_args.has_is_below_05
    /\ pc' = "summary_aborted"
    /\ UNCHANGED <<i, log, summary_args, futures_dict, colored_ids, completed>>
    /\ SummaryIdle

\* main.py 154-171.
Submit ==
    /\ pc = "summary_submit"
    /\ i < Len(sorted(summary_args.responsion_numbers))
    /\ summary_args.total_acute_plus_circum # 0
    /\ summary_args.has_is_below_05
    /\ LET r == sorted(summary_args.responsion_numbers)[i + 1]
       IN  futures_dict' = Store(futures_dict, r, Pending(summary_args.successes[r]))
    /\ i' = i + 1
    /\ UNCHANGED <<pc, log, summary_args, colored_ids, completed>>
    /\ SummaryIdle

\* A worker thread runs a submitted task to its end.
TaskRun ==
    /\ \E r \in DOMAIN futures_dict :
          /\ futures_dict[r].state = "pending"
          /\ futures_dict' =
                Store(futures_dict, r,
                      Finished(summary_args.is_below_05[futures_dict[r].successes]))
          /\ completed' = Append(completed, r)
    /\ UNCHANGED <<pc, i, log, summary_args, colored_ids>>
    /\ SummaryIdle

\* main.py 153 and 171: the with block is left when every task has finished.
ExecutorShutdown ==
    /\ pc = "summary_submit"
    /\ ~(i < Len(sorted(summary_args.responsion_numbers)))
    /\ \A r \in DOMAIN futures_dict : futures_dict[r].state # "pending"
    /\ pc' = "summary_join"
    /\ i' = 0
    /\ UNCHANGED <<log, summary_args, futures_dict, colored_ids, completed>>
    /\ SummaryIdle

\* main.py 175-186, one canticum: None, or a result.
Join ==
    /\ pc = "summary_join"
    /\ i < Len(sorted(summary_args.responsion_numbers))
    /\ LET r == sorted(summary_args.responsion_numbers)[i + 1]
           future_or_none == futures_dict[joined(r, i + 1, completed)]
       IN  /\ future_or_none.state = "None" \/ future_or_none.outcome # "raises"
           /\ colored_ids' =
                 Append(colored_ids,
                        IF future_or_none.state = "None" THEN RED(r)
                        ELSE IF future_or_none.outcome = "True" THEN GREEN(r)
                        ELSE RED(r))
    /\ i' = i + 1
    /\ UNCHANGED <<pc, log, summary_args, futures_dict, completed>>
    /\ SummaryIdle

\* main.py 182: result() raises what the task raised.
JoinRaises ==
    /\ pc = "summary_join"
    /\ i < Len(sorted(summary_args.responsion_numbers))
    /\ LET r == sorted(summary_args.responsion_numbers)[i + 1]
           future_or_none == futures_dict[joined(r, i + 1, completed)]
       IN  future_or_none.state # "None" /\ future_or_none.outcome = "raises"
    /\ pc' = "summary_aborted"
    /\ UNCHANGED <<i, log, summary_args, futures_dict, colored_ids, completed>>
    /\ SummaryIdle

\* main.py 188-202.
PrintSummary ==
    /\ pc = "summary_join"
    /\ ~(i < Len(sorted(summary_args.responsion_numbers)))
    /\ log' = Append(log, Cantica(colored_ids))
    /\ pc' = "summary_done"
    /\ UNCHANGED <<i, summary_args, futures_dict, colored_ids, completed>>
    /\ SummaryIdle

NextSummary ==
    \/ SubmitNone \/ SubmitRaises \/ Submit \/ TaskRun
    \/ ExecutorShutdown \/ Join \/ JoinRaises \/ PrintSummary

SpecSummary == InitSummary /\ [][NextSummary]_vars

(***************************************************************************)
(* Specification SpecPolyMain: process_barys_responsions of src/main.py    *)
(* (108-151), which compares all the strophes of a canticum at once with   *)
(* barys_accentually_responding_syllables_of_lines.  The xpath selects     *)
(* strophes and antistrophes alike, so the elements are of one type here.  *)
(***************************************************************************)
\* tree.xpath('//*[self::strophe or self::antistrophe][@responsion="..."]').
xpath_all(t, responsion) == SelectSeq(t, LAMBDA e : e.responsion = responsion)

InsufficientStrophes(responsion) ==
    [msg |-> "process_barys_responsions: Insufficient strophes for responsion",
     responsion |-> responsion]
MismatchInLineCounts(responsion) ==
    [msg |-> "Mismatch in line counts for responsion", responsion |-> responsion]

\* src/main.py 139-142: the loop over zip(*strophe_lines).  The two names
\* on the left of line 140 take the two lists of the classifier; when the
\* classifier returns False the assignment raises TypeError.
RECURSIVE LineGroupsLoop(_, _, _, _)
LineGroupsLoop(strophe_lines, k, counts, printed) ==
    IF k < Len(strophe_lines[1])
    THEN LET line_group == [j \in DOMAIN strophe_lines |-> strophe_lines[j][k + 1]]
             ns == [j \in DOMAIN strophe_lines |-> <<j, k + 1>>]
             call == barys_accentually_responding_syllables_of_lines(line_group, ns)
         IN  IF call.ret.ok
             THEN LineGroupsLoop(strophe_lines, k + 1,
                      [barys |-> counts.barys + Len(call.ret.lists[1]),
                       oxys  |-> counts.oxys + Len(call.ret.lists[2])],
                      printed \o call.printed)
             ELSE [raised |-> TRUE, counts |-> counts, printed |-> printed \o call.printed]
    ELSE [raised |-> FALSE, counts |-> counts, printed |-> printed]

ShortLine == <<Heavy0, Light0>>
GroupLines == {CanticumLine, ShortLine}

GroupElements ==
    UNION { Elements("strophe", [1..n -> GroupLines]) : n \in 0..MaxGroupLines }

InitPolyMain ==
    /\ \E m \in 0..MaxPolyStrophes : tree \in [1..m -> GroupElements]
    /\ responsion_numbers = {}
    /\ overall_counts = ZeroAccents
    /\ responsion_summaries = <<>>
    /\ barys_totals = ZeroBarys
    /\ barys_summaries = <<>>
    /\ lineA = <<>>
    /\ lineB = <<>>
    /\ pc = "poly_main_start"
    /\ i = 0
    /\ result = <<>>
    /\ units1 = <<>>
    /\ units2 = <<>>
    /\ ret = <<>>
    /\ args = <<>>
    /\ IdleStrophe
    /\ log = <<>>
    /\ IdleSummary
    /\ IdleLoop

PolyMainIdle ==
    UNCHANGED <<lineA, lineB, i, result, units1, units2, ret, args, stropheVars, summaryVars, loopVars,
                tree, overall_counts, responsion_summaries>>

\* src/main.py 321 and 331: the responsions of the file.
PolyGetResponsions ==
    /\ pc = "poly_main_start"
    /\ responsion_numbers' = get_all_responsion_numbers(tree)
    /\ pc' = "poly_process_barys"
    /\ UNCHANGED <<log, barys_totals, barys_summaries>>
    /\ PolyMainIdle

\* src/main.py 115-122.
PolyInsufficientStrophes ==
    /\ pc = "poly_process_barys"
    /\ \E responsion \in responsion_numbers :
          /\ Len(xpath_all(tree, responsion)) < 2
          /\ log' = Append(log, InsufficientStrophes(responsion))
          /\ responsion_numbers' = responsion_numbers \ {responsion}
    /\ UNCHANGED <<pc, barys_totals, barys_summaries>>
    /\ PolyMainIdle

\* src/main.py 124-132.
PolyMismatchInLineCounts ==
    /\ pc = "poly_process_barys"
    /\ \E responsion \in responsion_numbers :
          LET strophes == xpath_all(tree, responsion)
          IN  /\ ~(Len(strophes) < 2)
              /\ \E j \in DOMAIN strophes : Len(strophes[j].lines) # Len(strophes[1].lines)
              /\ log' = Append(log, MismatchInLineCounts(responsion))
              /\ responsion_numbers' = responsion_numbers \ {responsion}
    /\ UNCHANGED <<pc, barys_totals, barys_summaries>>
    /\ PolyMainIdle

\* src/main.py 115-149: every line group gives two lists.
PolyLineGroups ==
    /\ pc = "poly_process_barys"
    /\ \E responsion \in responsion_numbers :
          LET strophes == xpath_all(tree, responsion)
              strophe_lines == [j \in DOMAIN strophes |-> strophes[j].lines]
              loop == LineGroupsLoop(strophe_lines, 0, ZeroBarys, <<>>)
          IN  /\ ~(Len(strophes) < 2)
              /\ \A j \in DOMAIN strophes : Len(strophes[j].lines) = Len(strophes[1].lines)
              /\ ~loop.raised
              /\ log' = log \o loop.printed
              /\ barys_summaries' = Store(barys_summaries, responsion, loop.counts)
              /\ barys_totals' = [barys |-> barys_totals.barys + loop.counts.barys,
                                  oxys  |-> barys_totals.oxys + loop.counts.oxys]
              /\ responsion_numbers' = responsion_numbers \ {responsion}
    /\ UNCHANGED pc
    /\ PolyMainIdle

\* src/main.py 139-140: a line group for which the classifier returns False;
\* the TypeError leaves process_barys_responsions and the run.
PolyLineGroupRaises ==
    /\ pc = "poly_process_barys"
    /\ \E responsion \in responsion_numbers :
          LET strophes == xpath_all(tree, responsion)
              strophe_lines == [j \in DOMAIN strophes |-> strophes[j].lines]
              loop == LineGroupsLoop(strophe_lines, 0, ZeroBarys, <<>>)
          IN  /\ ~(Len(strophes) < 2)
              /\ \A j \in DOMAIN strophes : Len(strophes[j].lines) = Len(strophes[1].lines)
              /\ loop.raised
              /\ log' = log \o loop.printed
    /\ pc' = "poly_main_raised"
    /\ UNCHANGED <<responsion_numbers, barys_totals, barys_summaries>>
    /\ PolyMainIdle

\* src/main.py 151.
PolyProcessBarysReturn ==
    /\ pc = "poly_process_barys"
    /\ responsion_numbers = {}
    /\ pc' = "poly_main_done"
    /\ UNCHANGED <<log, responsion_numbers, barys_totals, barys_summaries>>
    /\ PolyMainIdle

NextPolyMain ==
    \/ PolyGetResponsions
    \/ PolyInsufficientStrophes \/ PolyMismatchInLineCounts
    \/ PolyLineGroups \/ PolyLineGroupRaises
    \/ PolyProcessBarysReturn

SpecPolyMain == InitPolyMain /\ [][NextPolyMain]_vars

(***************************************************************************)
(* Specification SpecCompile: b_compile.py, apply_brevis_in_longo.  The    *)
(* xml text is the sequence of its <l> elements, each with the value of    *)
(* its metre attribute (a sequence of characters, empty when the line has  *)
(* none) and its <syll> tags.                                              *)
(***************************************************************************)
\* metre_value.endswith("da").
endswith_da(metre_value) ==
    /\ Len(metre_value) >= 2
    /\ metre_value[Len(metre_value) - 1] = "d"
    /\ metre_value[Len(metre_value)] = "a"

\* The re.sub of line 103: the attribute is added to the tag.
add_brevis_in_longo(syll) == [syll EXCEPT !.brevis_in_longo = TRUE]

MarkIgnoringPenultimate(l) ==
    IF l.sylls = <<>> THEN l
    ELSE LET last_syll == l.sylls[Len(l.sylls)]
         IN  IF last_syll.weight = "light" /\ ~last_syll.resolution
             THEN [l EXCEPT !.sylls[Len(l.sylls)] = add_brevis_in_longo(last_syll)]
             ELSE l

\* b_compile.py 83-105.
mark_final_syllable(l) ==
    IF l.sylls = <<>> THEN l
    ELSE IF /\ endswith_da(l.metre)
            /\ Len(l.sylls) >= 2
            /\ l.sylls[Len(l.sylls) - 1].weight # "heavy"
    THEN l
    ELSE LET last_syll == l.sylls[Len(l.sylls)]
         IN  IF last_syll.weight = "light" /\ ~last_syll.resolution
             THEN [l EXCEPT !.sylls[Len(l.sylls)] = add_brevis_in_longo(last_syll)]
             ELSE l

\* b_compile.py 107: l_pattern.sub over every <l> of the text.
apply_brevis_in_longo(xml_text) ==
    [k \in DOMAIN xml_text |-> mark_final_syllable(xml_text[k])]

Metres == { <<"4", " ", "d", "a">>, <<"i", "a">>, <<>> }
ScannedSylls == {Heavy0, Light0, LightRes}

InitCompile ==
    /\ \E n \in 0..MaxXmlLines :
          args \in [1..n -> UNION { [metre : Metres, sylls : [1..m -> ScannedSylls]]
                                     : m \in 0..MaxLineSylls }]
    /\ ret = <<>>
    /\ pc = "compile_start"
    /\ lineA = <<>>
    /\ lineB = <<>>
    /\ i = 0
    /\ result = <<>>
    /\ units1 = <<>>
    /\ units2 = <<>>
    /\ IdleStrophe
    /\ log = <<>>
    /\ IdleSummary
    /\ IdleLoop
    /\ IdleMain

\* b_compile.py 159.
ApplyBrevisInLongoCall ==
    /\ pc = "compile_start"
    /\ ret' = apply_brevis_in_longo(args)
    /\ pc' = "compile_done"
    /\ UNCHANGED <<lineA, lineB, i, result, units1, units2, args, stropheVars, summaryVars, loopVars,
                    log, mainVars>>

NextCompile == ApplyBrevisInLongoCall

SpecCompile == InitCompile /\ [][NextCompile]_vars

(***************************************************************************)
(* Specification SpecComp: comp.py, compatibility_line.  The input is what *)
(* all_contours_line returns: for every position the contours of the       *)
(* responding lines at that position (the transposed lists of              *)
(* get_contours_line, which holds contours only, never sublists).  A ratio *)
(* max_len / len(position) is the pair of its numerator and denominator.   *)
(***************************************************************************)
Contours == {"DN-A", "DN", "UP", "UP-G", "N"}

\* comp.py 167-198: the lists up and down of one position.  A contour of
\* the first list is not tested against the second.
up_of(position) == SelectSeq(position, LAMBDA c : c \in {"UP", "UP-G", "N"})
down_of(position) ==
    SelectSeq(position, LAMBDA c : c \notin {"UP", "UP-G", "N"} /\ c \in {"DN", "DN-A", "N"})

max(a, b) == IF a >= b THEN a ELSE b

\* comp.py 200-201.
position_compatibility_ratio(position) ==
    [num |-> max(Len(up_of(position)), Len(down_of(position))), den |-> Len(position)]

InitComp ==
    /\ \E n \in 1..MaxResp, m \in 1..MaxPositions :
          args \in [position_lists : [1..m -> [1..n -> Contours]]]
    /\ ret = <<>>
    /\ pc = "comp_loop"
    /\ i = 0
    /\ lineA = <<>>
    /\ lineB = <<>>
    /\ result = <<>>
    /\ units1 = <<>>
    /\ units2 = <<>>
    /\ IdleStrophe
    /\ log = <<>>
    /\ IdleSummary
    /\ IdleLoop
    /\ IdleMain

CompIdle ==
    UNCHANGED <<lineA, lineB, result, units1, units2, args, stropheVars, summaryVars, loopVars,
                log, mainVars>>

\* comp.py 157-202: one position.
CompPosition ==
    /\ pc = "comp_loop"
    /\ i < Len(args.position_lists)
    /\ ret' = Append(ret, position_compatibility_ratio(args.position_lists[i + 1]))
    /\ i' = i + 1
    /\ UNCHANGED pc
    /\ CompIdle

\* comp.py 157: the positions are exhausted.
CompDone ==
    /\ pc = "comp_loop"
    /\ ~(i < Len(args.position_lists))
    /\ pc' = "comp_done"
    /\ UNCHANGED <<i, ret>>
    /\ CompIdle

NextComp == CompPosition \/ CompDone

SpecComp == InitComp /\ [][NextComp]_vars

(***************************************************************************)
(* Specification SpecLoops: the cursor loops of canonical_sylls            *)
(* (stats.py 129-169) and of build_units_for_accent (stats.py 207-239),    *)
(* one iteration a step, on the same lines.  SpecLoopsFair adds that a     *)
(* loop that can take a step takes it.                                     *)
(***************************************************************************)
UnitStepAnyNext(sylls, j, ordinal, line_n) ==
    IF sylls[j + 1].resolution /\ j + 1 < Len(sylls)
    THEN [unit |-> DoubleUnit(j + 1, ordinal, line_n), adv |-> 2]
    ELSE [unit |-> SingleUnit(j + 1, ordinal, line_n), adv |-> 1]

UnitStepSkipsTheEnd(sylls, j, ordinal, line_n) ==
    IF sylls[j + 1].resolution
    THEN [unit |-> DoubleUnit(j + 1, ordinal, line_n), adv |-> 2]
    ELSE [unit |-> SingleUnit(j + 1, ordinal, line_n), adv |-> 1]

\* stats.py 213-237: the unit appended at cursor j and the advance of j.
UnitStep(sylls, j, ordinal, line_n) ==
    IF sylls[j + 1].resolution /\ j + 1 < Len(sylls) /\ sylls[j + 2].resolution
    THEN [unit |-> DoubleUnit(j + 1, ordinal, line_n), adv |-> 2]
    ELSE [unit |-> SingleUnit(j + 1, ordinal, line_n), adv |-> 1]

CursorSylls == {Heavy0, Light0, LightRes, HeavyContracted}

InitLoops ==
    /\ \E m \in 0..MaxCursorLen : lineA \in [1..m -> CursorSylls]
    /\ pc \in {"canon_loop", "units_loop"}
    /\ unit_ordinal = IF pc = "units_loop" THEN 1 ELSE 0
    /\ i = 0
    /\ lineB = <<>>
    /\ result = <<>>
    /\ units1 = <<>>
    /\ units2 = <<>>
    /\ ret = <<>>
    /\ args = <<>>
    /\ IdleStrophe
    /\ log = <<>>
    /\ IdleSummary
    /\ IdleMain

\* stats.py 213-237.
UnitsIter ==
    /\ pc = "units_loop"
    /\ i < Len(lineA)
    /\ LET st == UnitStep(lineA, i, unit_ordinal, StropheLineN)
       IN  /\ units1' = Append(units1, st.unit)
           /\ i' = i + st.adv
    /\ unit_ordinal' = unit_ordinal + 1
    /\ UNCHANGED <<lineA, lineB, pc, result, units2, ret>>
    /\ UNCHANGED <<args, stropheVars, summaryVars, log, mainVars>>

\* stats.py 213 and 239.
UnitsReturn ==
    /\ pc = "units_loop"
    /\ ~(i < Len(lineA))
    /\ ret' = units1
    /\ pc' = "units_done"
    /\ UNCHANGED <<lineA, lineB, i, result, units1, units2, unit_ordinal>>
    /\ UNCHANGED <<args, stropheVars, summaryVars, log, mainVars>>

NextLoops == CanonIter \/ CanonReturn \/ UnitsIter \/ UnitsReturn

SpecLoops == InitLoops /\ [][NextLoops]_vars

SpecLoopsFair == SpecLoops /\ WF_vars(NextLoops)

(***************************************************************************)
(* stats_barys.py, count_all_barys_oxys: the denominators of the barys and *)
(* oxys percentages.  The syllables of the model's lines are children of   *)
(* their line, so that syll.getparent().getparent() of line 58 is the      *)
(* strophe of the syllable and line_sylls are all the syllables of that    *)
(* strophe; prev_syll is the syllable before it in the document.           *)
(***************************************************************************)
RECURSIVE ConcatAll(_)
ConcatAll(seqs) == IF seqs = <<>> THEN <<>> ELSE Head(seqs) \o ConcatAll(Tail(seqs))

\* line.findall('.//syll') of line 59.
line_sylls_of(element) == ConcatAll(element.lines)

\* tree.findall('.//syll') of line 54, up to the k-th element of the tree.
all_sylls_upto(t, k) == ConcatAll([e \in 1..k |-> line_sylls_of(t[e])])

\* The syllables of the tree: element and position among its syllables.
SyllsOf(t) == UNION { {e} \X DOMAIN line_sylls_of(t[e]) : e \in DOMAIN t }

count_all_barys_oxys(t) ==
    LET all_sylls == all_sylls_upto(t, Len(t))
        idx(p) == Len(all_sylls_upto(t, p[1] - 1)) + p[2]
        syll(p) == all_sylls[idx(p)]
        prev_syll(p) == IF idx(p) = 1 THEN None ELSE Some(all_sylls[idx(p) - 1])
    IN  [barys |-> Cardinality({ p \in SyllsOf(t) : potential_barys(syll(p), prev_syll(p)) }),
         oxys  |-> Cardinality({ p \in SyllsOf(t) :
                       /\ has_acute(syll(p))
                       /\ next_syll_is_light_or_none(p[2], line_sylls_of(t[p[1]])) })]

(***************************************************************************)
(* Specification SpecDenominators: main.py on a document of one strophe    *)
(* and one antistrophe, as SpecMain, followed by the barys/oxys            *)
(* calculations of print_combined_summary (main.py 134-142).               *)
(***************************************************************************)
LightAcute == Syll("light", FALSE, FALSE, FALSE, FALSE, {"acute"})

DenominatorLines == { <<LightAcute>>, <<HeavyAcute>>, <<HeavyAcute, Heavy0>> }

DenominatorLineLists == UNION { [1..n -> DenominatorLines] : n \in 1..MaxDenominatorLines }

InitDenominators ==
    /\ \E s \in Elements("strophe", DenominatorLineLists),
          a \in Elements("antistrophe", DenominatorLineLists) : tree = <<s, a>>
    /\ responsion_numbers = {}
    /\ overall_counts = ZeroAccents
    /\ responsion_summaries = <<>>
    /\ barys_totals = ZeroBarys
    /\ barys_summaries = <<>>
    /\ lineA = <<>>
    /\ lineB = <<>>
    /\ pc = "main_start"
    /\ i = 0
    /\ result = <<>>
    /\ units1 = <<>>
    /\ units2 = <<>>
    /\ ret = <<>>
    /\ args = <<>>
    /\ IdleStrophe
    /\ log = <<>>
    /\ IdleSummary
    /\ IdleLoop

\* main.py 134-138: all_barys_oxys.
CountPotential ==
    /\ pc = "main_done"
    /\ ret' = count_all_barys_oxys(tree)
    /\ pc' = "summary_totals"
    /\ UNCHANGED mainVars
    /\ UNCHANGED <<lineA, lineB, i, result, units1, units2, args, stropheVars, summaryVars, loopVars, log>>

NextDenominators == NextMain \/ CountPotential

SpecDenominators == InitDenominators /\ [][NextDenominators]_vars

(***************************************************************************)
(* src/stats_barys.py, count_all_barys_oxys_canticum: the denominators of  *)
(* one canticum.  prev_syll is the syllable before it in line_sylls, the   *)
(* syllables of the grandparent of the syllable (its strophe, in the       *)
(* documents of the model).                                                *)
(***************************************************************************)
count_all_barys_oxys_canticum(t, responsion) ==
    LET all_sylls == { p \in SyllsOf(t) : t[p[1]].responsion = responsion }
        line_sylls(p) == line_sylls_of(t[p[1]])
        syll(p) == line_sylls(p)[p[2]]
        prev_syll(p) == IF p[2] > 1 THEN Some(line_sylls(p)[p[2] - 1]) ELSE None
    IN  [barys |-> Cardinality({ p \in all_sylls : potential_barys(syll(p), prev_syll(p)) }),
         oxys  |-> Cardinality({ p \in all_sylls :
                       /\ has_acute(syll(p))
                       /\ next_syll_is_light_or_none(p[2], line_sylls(p)) })]

(***************************************************************************)
(* Specification SpecPotential: count_all_barys_oxys and, for every        *)
(* responsion of the document, count_all_barys_oxys_canticum, on the       *)
(* documents of SpecDenominators.                                          *)
(***************************************************************************)
InitPotential ==
    /\ \E s \in Elements("strophe", DenominatorLineLists),
          a \in Elements("antistrophe", DenominatorLineLists) : tree = <<s, a>>
    /\ responsion_numbers = get_all_responsion_numbers(tree)
    /\ overall_counts = ZeroAccents
    /\ responsion_summaries = <<>>
    /\ barys_totals = ZeroBarys
    /\ barys_summaries = <<>>
    /\ lineA = <<>>
    /\ lineB = <<>>
    /\ pc = "count_all"
    /\ i = 0
    /\ result = <<>>
    /\ units1 = <<>>
    /\ units2 = <<>>
    /\ ret = <<>>
    /\ args = <<>>
    /\ IdleStrophe
    /\ log = <<>>
    /\ IdleSummary
    /\ IdleLoop

PotentialIdle ==
    UNCHANGED <<lineA, lineB, i, result, units1, units2, args, stropheVars, summaryVars,
                loopVars, log, tree, overall_counts, responsion_summaries, barys_totals>>

CountAllCall ==
    /\ pc = "count_all"
    /\ ret' = count_all_barys_oxys(tree)
    /\ pc' = "count_cantica"
    /\ UNCHANGED <<responsion_numbers, barys_summaries>>
    /\ PotentialIdle

CountCanticumCall ==
    /\ pc = "count_cantica"
    /\ \E responsion \in responsion_numbers :
          /\ barys_summaries' =
                Store(barys_summaries, responsion,
                      count_all_barys_oxys_canticum(tree, responsion))
          /\ responsion_numbers' = responsion_numbers \ {responsion}
    /\ UNCHANGED <<pc, ret>>
    /\ PotentialIdle

CountDone ==
    /\ pc = "count_cantica"
    /\ responsion_numbers = {}
    /\ pc' = "count_done"
    /\ UNCHANGED <<ret, responsion_numbers, barys_summaries>>
    /\ PotentialIdle

NextPotential == CountAllCall \/ CountCanticumCall \/ CountDone

SpecPotential == InitPotential /\ [][NextPotential]_vars

(***************************************************************************)
(* Specification SpecArgs: the argument loop of the main program of        *)
(* src/main.py (340-415) for arguments that are cantica of one file.  For  *)
(* every argument process_responsions and process_barys_responsions are    *)
(* called with the one responsion.  process_responsions compares the       *)
(* strophes with accentually_responding_syllables_of_strophes_polystrophic,*)
(* which the sources do not define: its counts for a canticum are given    *)
(* with the arguments, as a function of the canticum.                      *)
(***************************************************************************)
\* process_barys_responsions (src/main.py 108-151) for the set of one responsion: what the call
\* returns and prints, or that it raised.
process_barys_responsions(t, responsion) ==
    LET strophes == xpath_all(t, responsion)
        strophe_lines == [j \in DOMAIN strophes |-> strophes[j].lines]
        loop == LineGroupsLoop(strophe_lines, 0, ZeroBarys, <<>>)
    IN  IF Len(strophes) < 2
        THEN [raised |-> FALSE, counts |-> ZeroBarys,
              printed |-> <<InsufficientStrophes(responsion)>>]
        ELSE IF \E j \in DOMAIN strophes : Len(strophes[j].lines) # Len(strophes[1].lines)
        THEN [raised |-> FALSE, counts |-> ZeroBarys,
              printed |-> <<MismatchInLineCounts(responsion)>>]
        ELSE loop

AccentCounts ==
    { ZeroAccents, [acute |-> 1, grave |-> 0, circumflex |-> 1] }

\* merge_summaries, src/main.py 301-306, for the summaries of one responsion.
merge_summaries(global_summaries, r_id, accent_dict) ==
    LET old == IF r_id \in DOMAIN global_summaries THEN global_summaries[r_id] ELSE ZeroAccents
    IN  Store(global_summaries, r_id,
              [acute      |-> old.acute + accent_dict.acute,
               grave      |-> old.grave + accent_dict.grave,
               circumflex |-> old.circumflex + accent_dict.circumflex])

InitArgs ==
    /\ \E m \in 0..MaxPolyStrophes : tree \in [1..m -> GroupElements]
    /\ \E n \in 1..MaxArgs :
          args \in [args : [1..n -> Responsions], file_overall : [Responsions -> AccentCounts]]
    /\ responsion_numbers = {}
    /\ overall_counts = ZeroAccents
    /\ responsion_summaries = <<>>
    /\ barys_totals = ZeroBarys
    /\ barys_summaries = <<>>
    /\ lineA = <<>>
    /\ lineB = <<>>
    /\ pc = "args_loop"
    /\ i = 0
    /\ result = <<>>
    /\ units1 = <<>>
    /\ units2 = <<>>
    /\ ret = <<>>
    /\ IdleStrophe
    /\ log = <<>>
    /\ IdleSummary
    /\ IdleLoop

ArgsIdle ==
    UNCHANGED <<lineA, lineB, result, units1, units2, ret, args, stropheVars, summaryVars,
                loopVars, tree, barys_summaries>>

\* src/main.py 372-412: one argument that is a canticum.
ArgCanticum ==
    /\ pc = "args_loop"
    /\ i < Len(args.args)
    /\ LET responsion == args.args[i + 1]
           file_overall == args.file_overall[responsion]
           c_barys_dict == count_all_barys_oxys_canticum(tree, responsion)
           call == process_barys_responsions(tree, responsion)
       IN  /\ ~call.raised
           /\ responsion_numbers' = responsion_numbers \cup {responsion}
           /\ overall_counts' =
                 [acute      |-> overall_counts.acute + file_overall.acute,
                  grave      |-> overall_counts.grave + file_overall.grave,
                  circumflex |-> overall_counts.circumflex + file_overall.circumflex]
           /\ responsion_summaries' =
                 merge_summaries(responsion_summaries, responsion, file_overall)
           /\ barys_totals' = [barys |-> call.counts.barys, oxys |-> call.counts.oxys]
           /\ log' = log \o call.printed \o
                     << [msg |-> "Found barys and oxys responsions", arg |-> responsion,
                         barys |-> call.counts.barys, oxys |-> call.counts.oxys],
                        [msg |-> "Total potential", barys |-> c_barys_dict.barys,
                         oxys |-> c_barys_dict.oxys] >>
    /\ i' = i + 1
    /\ UNCHANGED pc
    /\ ArgsIdle

\* src/main.py 374-407: process_barys_responsions raises at line 140.
ArgCanticumRaises ==
    /\ pc = "args_loop"
    /\ i < Len(args.args)
    /\ LET responsion == args.args[i + 1]
           file_overall == args.file_overall[responsion]
           call == process_barys_responsions(tree, responsion)
       IN  /\ call.raised
           /\ responsion_numbers' = responsion_numbers \cup {responsion}
           /\ overall_counts' =
                 [acute      |-> overall_counts.acute + file_overall.acute,
                  grave      |-> overall_counts.grave + file_overall.grave,
                  circumflex |-> overall_counts.circumflex + file_overall.circumflex]
           /\ responsion_summaries' =
                 merge_summaries(responsion_summaries, responsion, file_overall)
           /\ log' = log \o call.printed
    /\ pc' = "args_raised"
    /\ UNCHANGED <<i, barys_totals>>
    /\ ArgsIdle

\* src/main.py 340 and 417: the arguments are exhausted.
ArgsDone ==
    /\ pc = "args_loop"
    /\ ~(i < Len(args.args))
    /\ pc' = "args_done"
    /\ UNCHANGED <<i, log, responsion_numbers, overall_counts, responsion_summaries,
                    barys_totals>>
    /\ ArgsIdle

NextArgs == ArgCanticum \/ ArgCanticumRaises \/ ArgsDone

SpecArgs == InitArgs /\ [][NextArgs]_vars

(***************************************************************************)
(* C1.  The rules of the reducer as the specification lists them: at a     *)
(* cursor position the first applicable of (1) resolved pair, (2) anceps,  *)
(* (3) contraction of a heavy, (4) brevis in longo, (5) the weight.        *)
(***************************************************************************)
Rule1(sylls, j) ==
    j + 2 <= Len(sylls) /\ sylls[j + 1].resolution /\ sylls[j + 2].resolution
Rule2(sylls, j) == sylls[j + 1].anceps
Rule3(sylls, j) == sylls[j + 1].contraction /\ sylls[j + 1].weight = "heavy"
Rule4(sylls, j) == sylls[j + 1].brevis_in_longo

RuleEmit(sylls, j) ==
    CASE Rule1(sylls, j) -> <<"heavy">>
      [] ~Rule1(sylls, j) /\ Rule2(sylls, j) -> <<"anceps">>
      [] ~Rule1(sylls, j) /\ ~Rule2(sylls, j) /\ Rule3(sylls, j) -> <<"light", "light">>
      [] ~Rule1(sylls, j) /\ ~Rule2(sylls, j) /\ ~Rule3(sylls, j) /\ Rule4(sylls, j)
            -> <<"heavy">>
      [] OTHER -> IF sylls[j + 1].weight = "heavy" THEN <<"heavy">> ELSE <<"light">>

RECURSIVE RuleScan(_, _)
RuleScan(sylls, j) ==
    IF j >= Len(sylls) THEN <<>>
    ELSE RuleEmit(sylls, j) \o RuleScan(sylls, j + (IF Rule1(sylls, j) THEN 2 ELSE 1))

\* C1: canonical_sylls returns exactly the left-to-right scan that applies, at
\* each cursor position, the first applicable rule in the order 1..5; what is
\* emitted so far plus the scan of the rest is the scan of the whole line, so a
\* syllable that opens a resolved pair is never reclassified by rules 2-4.
C1_CanonIsRuleScan ==
    /\ pc = "canon_loop" => result \o RuleScan(lineA, i) = RuleScan(lineA, 0)
    /\ pc = "canon_done" => ret = RuleScan(lineA, 0)

\* A resolved pair whose first syllable is also anceps, contracted and brevis
\* in longo has been reduced to a single heavy.
C1_Witness ==
    /\ pc = "canon_done"
    /\ Len(lineA) = 2
    /\ lineA[1].resolution /\ lineA[2].resolution
    /\ lineA[1].anceps /\ lineA[1].contraction /\ lineA[1].brevis_in_longo
    /\ lineA[1].weight = "heavy"
    /\ ret = <<"heavy">>

(***************************************************************************)
(* C2.  Two canonical sequences respond: equal length and, at every        *)
(* position, an anceps on either side or equal symbols.                    *)
(***************************************************************************)
Responds(c1, c2) ==
    /\ Len(c1) = Len(c2)
    /\ \A k \in 1..Len(c1) : c1[k] = "anceps" \/ c2[k] = "anceps" \/ c1[k] = c2[k]

LinesRespond == Responds(canonical_sylls(lineA), canonical_sylls(lineB))

\* C2: metrically_responding_lines(A, B) is true iff the canonical sequences
\* have equal length and agree, up to anceps, at every position; a length
\* mismatch gives false.
C2_RespondsIffCompatible ==
    pc = "mr_done" => ret = LinesRespond

\* A resolved pair answered by one anceps syllable: different raw lengths,
\* different canonical symbols, and the lines respond.
C2_Witness ==
    /\ pc = "mr_done"
    /\ ret = TRUE
    /\ Len(lineA) = 2 /\ Len(lineB) = 1
    /\ canonical_sylls(lineA) = <<"heavy">>
    /\ canonical_sylls(lineB) = <<"anceps">>

(***************************************************************************)
(* C3.                                                                     *)
(***************************************************************************)
\* C3: whenever two lines metrically respond, their accent units are equally
\* many, and accentually_responding_syllables_of_line_pair does not return
\* False on them.
C3_RespondingLinesHaveEqualUnits ==
    (pc = "acc_done" /\ LinesRespond) =>
        /\ Len(build_units_for_accent(lineA, StropheLineN)) = Len(build_units_for_accent(lineB, AntistropheLineN))
        /\ ret.ok

(***************************************************************************)
(* C4.                                                                     *)
(***************************************************************************)
\* C4: on two lines that do not metrically respond, both line-pair functions
\* return False: the loop over the unit pairs is never entered, nothing is
\* recorded and no list is returned.
C4_NotRespondingFails ==
    ~LinesRespond =>
        /\ pc \notin {"acc_loop", "barys_loop"}
        /\ result = <<>>
        /\ pc \in {"acc_done", "barys_done"} => ret = Failure

\* Two lines of different canonical length that both open with an acute heavy
\* syllable: the accentual function has returned False.
C4_Witness ==
    /\ pc = "acc_done"
    /\ ~LinesRespond
    /\ ret = Failure
    /\ Len(lineA) = 1 /\ Len(lineB) = 2
    /\ has_acute(lineA[1]) /\ has_acute(lineB[1])
    /\ is_heavy(lineA[1]) /\ is_heavy(lineB[1])

(***************************************************************************)
(* C5, C6, C7.  The matches recorded so far, by the ordinal they are       *)
(* recorded under.                                                         *)
(***************************************************************************)
InLoop == pc = "acc_loop" \/ (pc = "acc_done" /\ ret.ok)

RecordedAt(n, k) == SelectSeq(result[n], LAMBDA m : m.s_ord = k /\ m.a_ord = k)

Bears(syll, n) == AccentOrder[n] \in syll.accent

OnlySingles(units) == \A k \in 1..Len(units) : units[k].type = "single"

\* C5: at a single/single ordinal, list c gets exactly one match iff both
\* syllables bear c, each category on its own; so for lines made of single
\* units only, the matches of c are as many as the ordinals where both bear c.
C5_SingleSingleByCategory ==
    InLoop =>
        /\ \A k \in 1..i : \A n \in 1..3 :
              (units1[k].type = "single" /\ units2[k].type = "single") =>
                  RecordedAt(n, k) =
                      IF Bears(lineA[units1[k].syll], n) /\ Bears(lineB[units2[k].syll], n)
                      THEN <<Match(units1[k], <<units1[k].syll>>, units2[k], <<units2[k].syll>>)>>
                      ELSE <<>>
        /\ (pc = "acc_done" /\ OnlySingles(units1) /\ OnlySingles(units2)) =>
              \A n \in 1..3 :
                  Len(ret.lists[n]) =
                      Cardinality({k \in 1..Len(lineA) :
                                      Bears(lineA[k], n) /\ Bears(lineB[k], n)})

\* Two lines of two singles: both bear acute and circumflex at ordinal 1,
\* only the strophe line bears an acute at ordinal 2.
C5_Witness ==
    /\ pc = "acc_done" /\ ret.ok
    /\ Len(lineA) = 2 /\ OnlySingles(units1) /\ OnlySingles(units2)
    /\ lineA[1].accent = {"acute", "circumflex"} /\ lineB[1].accent = {"acute", "circumflex"}
    /\ has_acute(lineA[2]) /\ ~has_acute(lineB[2])
    /\ Len(ret.lists[1]) = 1 /\ Len(ret.lists[2]) = 0 /\ Len(ret.lists[3]) = 1

\* C6: at a double/double ordinal an acute match is recorded for the first
\* sub-syllables iff both bear an acute, and for the second ones likewise;
\* first against second records nothing, and no grave or circumflex match is
\* recorded.
C6_DoubleDoubleSamePosition ==
    InLoop =>
        \A k \in 1..i :
            (units1[k].type = "double" /\ units2[k].type = "double") =>
                LET s1 == units1[k].syll1
                    s2 == units1[k].syll2
                    a1 == units2[k].syll1
                    a2 == units2[k].syll2
                IN  /\ RecordedAt(1, k) =
                          (IF has_acute(lineA[s1]) /\ has_acute(lineB[a1])
                           THEN <<Match(units1[k], <<s1>>, units2[k], <<a1>>)>> ELSE <<>>)
                          \o (IF has_acute(lineA[s2]) /\ has_acute(lineB[a2])
                              THEN <<Match(units1[k], <<s2>>, units2[k], <<a2>>)>> ELSE <<>>)
                    /\ RecordedAt(2, k) = <<>>
                    /\ RecordedAt(3, k) = <<>>

\* A resolved pair with the acute on its first syllable against one with the
\* acute on its second: compared, nothing recorded.
C6_Witness ==
    /\ pc = "acc_done" /\ ret.ok
    /\ Len(units1) = 1 /\ units1[1].type = "double" /\ units2[1].type = "double"
    /\ has_acute(lineA[1]) /\ ~has_acute(lineA[2])
    /\ ~has_acute(lineB[1]) /\ has_acute(lineB[2])
    /\ ret.lists = << <<>>, <<>>, <<>> >>

\* C7: a single facing a double, in either line order, records exactly one
\* acute match iff the single is heavy with an acute and the second syllable
\* of the double has an acute; nothing else, and never a grave or circumflex.
C7_SingleDoubleHeavyAcute ==
    InLoop =>
        \A k \in 1..i :
            /\ (units1[k].type = "double" /\ units2[k].type = "single") =>
                  /\ RecordedAt(1, k) =
                        IF /\ is_heavy(lineB[units2[k].syll])
                           /\ has_acute(lineB[units2[k].syll])
                           /\ has_acute(lineA[units1[k].syll2])
                        THEN <<Match(units1[k], <<units1[k].syll2>>, units2[k], <<units2[k].syll>>)>>
                        ELSE <<>>
                  /\ RecordedAt(2, k) = <<>> /\ RecordedAt(3, k) = <<>>
            /\ (units1[k].type = "single" /\ units2[k].type = "double") =>
                  /\ RecordedAt(1, k) =
                        IF /\ is_heavy(lineA[units1[k].syll])
                           /\ has_acute(lineA[units1[k].syll])
                           /\ has_acute(lineB[units2[k].syll2])
                        THEN <<Match(units1[k], <<units1[k].syll>>, units2[k], <<units2[k].syll2>>)>>
                        ELSE <<>>
                  /\ RecordedAt(2, k) = <<>> /\ RecordedAt(3, k) = <<>>

\* A heavy single with an acute in the strophe line against a resolved pair
\* with the acute on its second syllable: one acute match.
C7_Witness ==
    /\ pc = "acc_done" /\ ret.ok
    /\ Len(units1) = 1 /\ units1[1].type = "single" /\ units2[1].type = "double"
    /\ is_heavy(lineA[1]) /\ has_acute(lineA[1]) /\ has_acute(lineB[2])
    /\ ret.lists = << <<Match(units1[1], <<1>>, units2[1], <<2>>)>>, <<>>, <<>> >>

(***************************************************************************)
(* C10.  barys_responsion is true exactly in three cases.                  *)
(***************************************************************************)
Circumflexed(syll) == "circumflex" \in syll.accent
Heavy(syll) == syll.weight = "heavy"
AcuteBefore(prev) == Len(prev) = 1 /\ "acute" \in prev[1].accent

\* C10: barys_responsion(s1, s2, p1, p2) is true iff (a) both syllables carry
\* a circumflex, or (b) both are heavy and both predecessors exist and carry
\* an acute, or (c) one carries a circumflex and the other is heavy with a
\* predecessor that carries an acute; for two heavy syllables without
\* circumflex an acute on one predecessor only gives false.
C10_BarysIffThreeCases ==
    pc = "barys_fn_done" =>
        LET s1 == args.syll1
            s2 == args.syll2
            p1 == args.prev_syll1
            p2 == args.prev_syll2
            caseA == Circumflexed(s1) /\ Circumflexed(s2)
            caseB == Heavy(s1) /\ Heavy(s2) /\ AcuteBefore(p1) /\ AcuteBefore(p2)
            caseC == \/ Circumflexed(s1) /\ Heavy(s2) /\ AcuteBefore(p2)
                     \/ Circumflexed(s2) /\ Heavy(s1) /\ AcuteBefore(p1)
        IN  /\ ret = (caseA \/ caseB \/ caseC)
            /\ ( /\ Heavy(s1) /\ Heavy(s2)
                 /\ ~Circumflexed(s1) /\ ~Circumflexed(s2)
                 /\ AcuteBefore(p1) # AcuteBefore(p2) ) => ret = FALSE

\* Two heavy syllables without circumflex, an acute before the first only
\* (the second has a predecessor, without acute): no barys responsion.
C10_Witness ==
    /\ pc = "barys_fn_done"
    /\ Heavy(args.syll1) /\ Heavy(args.syll2)
    /\ ~Circumflexed(args.syll1) /\ ~Circumflexed(args.syll2)
    /\ AcuteBefore(args.prev_syll1)
    /\ args.prev_syll2 # None /\ ~AcuteBefore(args.prev_syll2)
    /\ ret = FALSE

(***************************************************************************)
(* C8.  The strophe-pair functions are all-or-nothing.                     *)
(***************************************************************************)
StropheDone == pc \in {"strophe_acc_done", "strophe_barys_done"}
PairCount == IF Len(strophe.lines) < Len(antistrophe.lines)
             THEN Len(strophe.lines) ELSE Len(antistrophe.lines)
PairResponds(k) == Responds(canonical_sylls(strophe.lines[k]),
                            canonical_sylls(antistrophe.lines[k]))
\* The result of the line-pair function on the k-th lines.
PairResult(k) ==
    IF pc = "strophe_acc_done"
    THEN accentually_responding_syllables_of_line_pair(
             strophe.lines[k], LineN(strophe, k), antistrophe.lines[k], LineN(antistrophe, k))
    ELSE barys_accentually_responding_syllables_of_line_pair(
             strophe.lines[k], LineN(strophe, k), antistrophe.lines[k], LineN(antistrophe, k))
RECURSIVE ConcatUpTo(_, _)
ConcatUpTo(n, k) ==
    IF k = 0 THEN <<>> ELSE ConcatUpTo(n, k - 1) \o PairResult(k).lists[n]
StropheMismatch ==
    \/ strophe.responsion # antistrophe.responsion
    \/ Len(strophe.lines) # Len(antistrophe.lines)
    \/ \E k \in 1..PairCount : ~PairResponds(k)

\* C8: a strophe-pair function returns False if the responsion ids differ,
\* the line counts differ or some line pair does not respond; otherwise it
\* returns, list by list, the concatenation in line order of the results of
\* the line pairs.
C8_StrophePairAllOrNothing ==
    StropheDone =>
        IF StropheMismatch
        THEN ret = Failure
        ELSE /\ ret.ok
             /\ \A n \in DOMAIN ret.lists :
                   ret.lists[n] = ConcatUpTo(n, Len(strophe.lines))

\* The half of C8 that holds: on any of the three mismatches the functions
\* return False, and a returned value is the in-order concatenation.
StrophePairFailsOnMismatch ==
    StropheDone =>
        /\ StropheMismatch => ret = Failure
        /\ ret.ok => \A n \in DOMAIN ret.lists :
                         ret.lists[n] = ConcatUpTo(n, Len(strophe.lines))

\* A first line pair with matches, a second that does not respond: False.
StropheFailsAfterMatches ==
    /\ StropheDone
    /\ strophe.responsion = antistrophe.responsion
    /\ Len(strophe.lines) = 2 /\ Len(antistrophe.lines) = 2
    /\ PairResult(1).ok /\ PairResult(1).lists[1] # <<>>
    /\ ~PairResponds(2)
    /\ ret = Failure

(***************************************************************************)
(* C9.  A canticum with unequal line counts.                               *)
(***************************************************************************)
StrophesOf(r) == { k \in DOMAIN tree : tree[k].responsion = r /\ tree[k].type = "strophe" }
AntistrophesOf(r) ==
    { k \in DOMAIN tree : tree[k].responsion = r /\ tree[k].type = "antistrophe" }
\* Responsion r has one strophe and one antistrophe, of unequal line counts.
UnequalCanticum(r) ==
    /\ Cardinality(StrophesOf(r)) = 1
    /\ Cardinality(AntistrophesOf(r)) = 1
    /\ \E s \in StrophesOf(r) : \E a \in AntistrophesOf(r) :
          Len(tree[s].lines) # Len(tree[a].lines)
ReportedMismatch(r) ==
    \E k \in DOMAIN log :
        /\ log[k].msg = "Mismatch in line count for responsion"
        /\ log[k].responsion = r
ContributesZero(r) ==
    /\ r \in DOMAIN responsion_summaries => responsion_summaries[r] = ZeroAccents
    /\ r \in DOMAIN barys_summaries => barys_summaries[r] = ZeroBarys

\* C9: when the run is over, a canticum whose strophe and antistrophe have
\* unequal line counts has been reported as a line-count mismatch, and its
\* acute, grave, circumflex, barys and oxys counts are zero (its first
\* min(m, n) line pairs have not been counted).
C9_UnequalCanticumReportedAndExcluded ==
    pc = "main_done" =>
        \A r \in Responsions :
            UnequalCanticum(r) => ReportedMismatch(r) /\ ContributesZero(r)

\* The half of C9 that holds: such a canticum counts zero in every
\* aggregate, and the totals are those of the other cantica.
UnequalCanticumContributesZero ==
    pc = "main_done" =>
        /\ \A r \in Responsions : UnequalCanticum(r) => ContributesZero(r)
        /\ (\A r \in get_all_responsion_numbers(tree) : UnequalCanticum(r)) =>
               overall_counts = ZeroAccents /\ barys_totals = ZeroBarys

\* A strophe of three lines and an antistrophe of two, nothing else in the
\* tree: the run ends with nothing counted.
UnequalCanticumDone ==
    /\ pc = "main_done"
    /\ Len(tree) = 2
    /\ \E r \in Responsions : UnequalCanticum(r)
    /\ \E k \in DOMAIN tree : tree[k].type = "strophe" /\ Len(tree[k].lines) = 3
    /\ \E k \in DOMAIN tree : tree[k].type = "antistrophe" /\ Len(tree[k].lines) = 2
    /\ overall_counts = ZeroAccents /\ barys_totals = ZeroBarys

(***************************************************************************)
(* The line-pair functions run step by step (SpecPair, SpecUnits) return   *)
(* what the same functions return as operators.                            *)
(***************************************************************************)
LinePairStepsAgree ==
    /\ pc = "acc_done" =>
          ret = accentually_responding_syllables_of_line_pair(
                    lineA, StropheLineN, lineB, AntistropheLineN)
    /\ pc = "barys_done" =>
          ret = barys_accentually_responding_syllables_of_line_pair(
                    lineA, StropheLineN, lineB, AntistropheLineN)

(***************************************************************************)
(* C11.  oxys_responsion_single_syllables.                                 *)
(***************************************************************************)
Acuted(syll) == "acute" \in syll.accent
LastOrBeforeLight(sylls, k) == k = Len(sylls) \/ sylls[k + 1].weight = "light"
BeforeHeavy(sylls, k) == k < Len(sylls) /\ sylls[k + 1].weight = "heavy"

\* C11: oxys_responsion_single_syllables is true iff both syllables carry an
\* acute and each is the last syllable of its line or is immediately
\* followed in its line by a light syllable; a side followed by a heavy
\* syllable makes it false.
C11_OxysIffAcuteBeforeLightOrEnd ==
    pc = "oxys_fn_done" =>
        LET s1 == args.all_sylls_1
            s2 == args.all_sylls_2
        IN  /\ ret = ( /\ Acuted(s1[args.s_idx]) /\ Acuted(s2[args.a_idx])
                       /\ LastOrBeforeLight(s1, args.s_idx)
                       /\ LastOrBeforeLight(s2, args.a_idx) )
            /\ (BeforeHeavy(s1, args.s_idx) \/ BeforeHeavy(s2, args.a_idx)) => ret = FALSE

\* Both syllables have an acute, the second is the last of its line, the
\* first is followed by a heavy syllable: no oxys responsion.
C11_Witness ==
    /\ pc = "oxys_fn_done"
    /\ Acuted(args.all_sylls_1[args.s_idx]) /\ Acuted(args.all_sylls_2[args.a_idx])
    /\ BeforeHeavy(args.all_sylls_1, args.s_idx)
    /\ args.a_idx = Len(args.all_sylls_2)
    /\ ret = FALSE

(***************************************************************************)
(* C12.  Barys before oxys, at most one of them per unit position.         *)
(***************************************************************************)
\* The unit ordinals of the matches of a returned list.
Ordinals(list) ==
    { IF pc = "poly_done" THEN list[k].keys[1][2] ELSE list[k].s_ord : k \in DOMAIN list }

\* C12: in what the pairwise classifier and the polystrophic classifier
\* return, no unit position is in both the barys list and the oxys list.
C12_BarysExcludesOxys ==
    (pc \in {"poly_done", "pair_barys_done"} /\ ret.ok) =>
        Ordinals(ret.lists[1]) \cap Ordinals(ret.lists[2]) = {}

\* The half of C12 that holds: the pairwise classifier.
PairwiseBarysExcludesOxys ==
    (pc = "pair_barys_done" /\ ret.ok) =>
        Ordinals(ret.lists[1]) \cap Ordinals(ret.lists[2]) = {}

\* Twice the line heavy with acute, heavy with acute, light: its second
\* syllable meets both criteria, and the pairwise classifier records it as
\* barys only.
PairwiseBarysOnly ==
    /\ pc = "pair_barys_done" /\ ret.ok
    /\ args.lines[1] = <<HeavyAcute, HeavyAcute, Light0>>
    /\ args.lines[2] = <<HeavyAcute, HeavyAcute, Light0>>
    /\ Ordinals(ret.lists[1]) = {2}
    /\ Ordinals(ret.lists[2]) = {}

(***************************************************************************)
(* C13.  The polystrophic classifier records a match iff all lines agree.  *)
(***************************************************************************)
PolyUnits(j) == build_units_for_accent(args.lines[j], args.ns[j])
\* The syllable of line j compared at unit position k, and the one before
\* it in the line.
SyllAt(j, k) == args.lines[j][unit_syll(PolyUnits(j)[k])]
BeforeAt(j, k) ==
    LET p == unit_syll(PolyUnits(j)[k])
    IN  IF p > 1 THEN <<args.lines[j][p - 1]>> ELSE <<>>
\* The two-line rules between lines a and b at unit position k.
TwoLineBarys(a, b, k) ==
    \/ Circumflexed(SyllAt(a, k)) /\ Circumflexed(SyllAt(b, k))
    \/ /\ Heavy(SyllAt(a, k)) /\ Heavy(SyllAt(b, k))
       /\ AcuteBefore(BeforeAt(a, k)) /\ AcuteBefore(BeforeAt(b, k))
    \/ Circumflexed(SyllAt(a, k)) /\ Heavy(SyllAt(b, k)) /\ AcuteBefore(BeforeAt(b, k))
    \/ Circumflexed(SyllAt(b, k)) /\ Heavy(SyllAt(a, k)) /\ AcuteBefore(BeforeAt(a, k))
TwoLineOxys(a, b, k) ==
    /\ Acuted(SyllAt(a, k)) /\ Acuted(SyllAt(b, k))
    /\ LastOrBeforeLight(args.lines[a], unit_syll(PolyUnits(a)[k]))
    /\ LastOrBeforeLight(args.lines[b], unit_syll(PolyUnits(b)[k]))
LinePairs == { p \in (DOMAIN args.lines) \X (DOMAIN args.lines) : p[1] # p[2] }

\* C13: in what the polystrophic classifier returns for n lines, a unit
\* position is in the barys (oxys) list iff every two of the n lines
\* satisfy the two-line barys (oxys) rule there.
C13_PolyMatchIffAllAgree ==
    (pc = "poly_done" /\ ret.ok) =>
        \A k \in 1..Len(PolyUnits(1)) :
            /\ k \in Ordinals(ret.lists[1]) <=> \A p \in LinePairs : TwoLineBarys(p[1], p[2], k)
            /\ k \in Ordinals(ret.lists[2]) <=> \A p \in LinePairs : TwoLineOxys(p[1], p[2], k)

\* Three lines, the first two barys at unit 2 with each other, the third
\* not: nothing recorded at unit 2.
C13_Witness ==
    /\ pc = "poly_done" /\ ret.ok
    /\ Len(args.lines) = 3 /\ Len(PolyUnits(1)) = 3
    /\ TwoLineBarys(1, 2, 2) /\ ~TwoLineBarys(1, 3, 2)
    /\ 2 \notin Ordinals(ret.lists[1])

(***************************************************************************)
(* C14.  Length of the canonical sequence of a line without contraction.   *)
(***************************************************************************)
NoContraction(line) == \A k \in DOMAIN line : ~line[k].contraction
ResolutionPair(line) ==
    \E k \in 1..(Len(line) - 1) : line[k].resolution /\ line[k + 1].resolution

\* C14: for a line without contraction syllable the canonical sequence is at
\* most as long as the line, and as long iff the line has no two
\* consecutive resolution-marked syllables.
C14_CanonicalLengthBound ==
    (pc = "canon_done" /\ NoContraction(lineA)) =>
        /\ Len(ret) <= Len(lineA)
        /\ Len(ret) = Len(lineA) <=> ~ResolutionPair(lineA)

\* Two resolution-marked syllables, no contraction: one canonical symbol.
C14_Witness ==
    /\ pc = "canon_done"
    /\ NoContraction(lineA) /\ ResolutionPair(lineA)
    /\ Len(lineA) = 2 /\ Len(ret) = 1

(***************************************************************************)
(* C15.  metrically_responding_lines is symmetric.                         *)
(***************************************************************************)
\* C15: metrically_responding_lines(A, B) = metrically_responding_lines(B, A)
\* for all lines A and B.
C15_RespondsSymmetric ==
    pc = "mr_done" => ret = metrically_responding_lines(lineB, lineA)

\* Two different lines that respond because the second has an anceps where
\* the first has another value.
C15_Witness ==
    /\ pc = "mr_done" /\ ret = TRUE
    /\ Len(lineA) = 2
    /\ \E k \in 1..2 : /\ lineB[k].anceps /\ ~lineA[k].anceps
                        /\ canonical_sylls(lineA)[k] # "anceps"

(***************************************************************************)
(* C16.  canonical_sylls is idempotent on its own output.                  *)
(***************************************************************************)
\* A canonical symbol turned back into a syllable: heavy and light as the
\* weight, anceps as the anceps flag, no other marker.
AsSyllable(symbol) ==
    IF symbol = "anceps"
    THEN Syll("", TRUE, FALSE, FALSE, FALSE, {})
    ELSE Syll(symbol, FALSE, FALSE, FALSE, FALSE, {})
AsLine(canonical) == [k \in 1..Len(canonical) |-> AsSyllable(canonical[k])]

\* C16: canonical_sylls applied to its own output, turned back into
\* syllables, returns that output, for every line.
C16_CanonicalIdempotent ==
    pc = "canon_done" => canonical_sylls(AsLine(ret)) = ret

\* An anceps and a contracted heavy: anceps, light, light, and the same
\* again when re-run.
C16_Witness ==
    /\ pc = "canon_done"
    /\ ret = <<"anceps", "light", "light">>
    /\ Len(lineA) = 2
    /\ canonical_sylls(AsLine(ret)) = ret

(***************************************************************************)
(* C17.  In the significance step of print_combined_summary, a canticum    *)
(* whose task fails (it raises, or the denominator is zero) is reported    *)
(* with the result of an inapplicable test (RED), every other canticum is  *)
(* still reported, and the step is never aborted.                          *)
(*                                                                         *)
(* The half about the zero denominator holds (ZeroDenominatorIsReported):  *)
(* no task is submitted and the canticum is RED.  The half about a raising *)
(* task does not: nothing catches what result() raises again in the main   *)
(* thread, and the submitted method is_below_05 is not defined by          *)
(* SignificanceTester, so the submission itself raises.                    *)
(***************************************************************************)
SummaryIds == sorted(summary_args.responsion_numbers)

TaskOutcome(r) ==
    IF summary_args.total_acute_plus_circum = 0 THEN "none"
    ELSE summary_args.is_below_05[summary_args.successes[r]]

TaskFails(r) == TaskOutcome(r) \in {"none", "raises"}

C17_TaskFailureNeverAborts ==
    /\ pc # "summary_aborted"
    /\ pc = "summary_done" =>
          /\ Len(colored_ids) = Len(SummaryIds)
          /\ \A k \in DOMAIN SummaryIds :
                /\ colored_ids[k].id = SummaryIds[k]
                /\ TaskFails(SummaryIds[k]) => colored_ids[k].colour = "RED"

ZeroDenominatorIsReported ==
    (pc \in {"summary_submit", "summary_join", "summary_done"}
       /\ summary_args.total_acute_plus_circum = 0) =>
        /\ \A r \in DOMAIN futures_dict : futures_dict[r] = NoFuture
        /\ \A k \in DOMAIN colored_ids : colored_ids[k] = RED(SummaryIds[k])
        /\ pc = "summary_done" => Len(colored_ids) = Len(SummaryIds)

\* The step is aborted by a raising task, or by the missing method.
AbortedByARaise ==
    pc = "summary_aborted" =>
        \/ ~summary_args.has_is_below_05
        \/ \E r \in DOMAIN futures_dict : futures_dict[r].outcome = "raises"

\* A task raised, the other tasks returned, and the step was aborted.
OneTaskRaisedAndAborted ==
    /\ pc = "summary_aborted"
    /\ summary_args.has_is_below_05
    /\ Len(SummaryIds) = 3
    /\ Cardinality({r \in DOMAIN futures_dict : futures_dict[r].outcome = "raises"}) = 1
    /\ colored_ids = <<>>

(***************************************************************************)
(* C18.  Whatever the order in which the tasks of the pool finish, the     *)
(* results are taken in the order of submission (the sorted cantica) and   *)
(* each canticum gets the result of its own task, so the reported list is  *)
(* the same for every interleaving.                                        *)
(***************************************************************************)
OwnColour(r) == IF TaskOutcome(r) = "True" THEN GREEN(r) ELSE RED(r)

C18_JoinedInSubmissionOrder ==
    pc = "summary_done" =>
        colored_ids = [k \in DOMAIN SummaryIds |-> OwnColour(SummaryIds[k])]

\* A task writes its own future and nothing else of the program's state.
TasksShareNoState ==
    [][TaskRun =>
         \E r \in DOMAIN futures_dict :
            /\ futures_dict' = Store(futures_dict, r, futures_dict'[r])
            /\ UNCHANGED <<pc, i, log, summary_args, colored_ids>>]_vars

\* Three tasks finished in another order than they were submitted, with
\* different results.
C18_Witness ==
    /\ pc = "summary_done"
    /\ Len(completed) = 3
    /\ completed # SummaryIds
    /\ \E k \in DOMAIN colored_ids : colored_ids[k].colour = "GREEN"
    /\ \E k \in DOMAIN colored_ids : colored_ids[k].colour = "RED"

(***************************************************************************)
(* C19.  When a line group of a canticum does not respond metrically (or   *)
(* its unit counts differ), the canticum gives a negative or skipped       *)
(* result, the remaining cantica are processed and the totals are          *)
(* returned: the run over the document is never aborted by such a          *)
(* mismatch.                                                               *)
(*                                                                         *)
(* This does not hold of process_barys_responsions of src/main.py: it      *)
(* assigns the classifier's value to two names, and the classifier's       *)
(* False for such a line group raises TypeError there.  Cantica that are   *)
(* skipped before the classifier is called (fewer than two strophes,       *)
(* unequal line counts) do let the run go on (SkippedCanticaGoOn).         *)
(***************************************************************************)
GroupOf(responsion, k) ==
    [j \in DOMAIN xpath_all(tree, responsion) |-> xpath_all(tree, responsion)[j].lines[k]]

\* A line group of the tree that reaches the classifier and makes it return
\* False.
StructuralMismatch ==
    \E responsion \in get_all_responsion_numbers(tree) :
        LET strophes == xpath_all(tree, responsion)
        IN  /\ Len(strophes) >= 2
            /\ \A j \in DOMAIN strophes : Len(strophes[j].lines) = Len(strophes[1].lines)
            /\ \E k \in 1..Len(strophes[1].lines) :
                  ~barys_accentually_responding_syllables_of_lines(
                       GroupOf(responsion, k),
                       [j \in DOMAIN strophes |-> <<j, k>>]).ret.ok

C19_MismatchNeverAbortsRun ==
    /\ pc # "poly_main_raised"
    /\ (pc = "poly_main_done" /\ StructuralMismatch) =>
          \A responsion \in get_all_responsion_numbers(tree) :
              responsion \in DOMAIN barys_summaries
                 \/ \E k \in DOMAIN log : log[k].responsion = responsion

\* The run is aborted only by a line group of that kind, and with one in
\* the tree no totals are returned.
AbortedByMismatchOnly ==
    /\ pc = "poly_main_raised" => StructuralMismatch
    /\ pc = "poly_main_done" => ~StructuralMismatch

SkippedCanticaGoOn ==
    (pc = "poly_main_done") =>
        \A responsion \in get_all_responsion_numbers(tree) :
            LET strophes == xpath_all(tree, responsion)
            IN  IF Len(strophes) < 2
                   \/ \E j \in DOMAIN strophes : Len(strophes[j].lines) # Len(strophes[1].lines)
                THEN responsion \notin DOMAIN barys_summaries
                ELSE responsion \in DOMAIN barys_summaries

\* Two cantica, one with a line group that does not respond: the run is
\* left while the other one may still be waiting.
MismatchAbortedRun ==
    /\ pc = "poly_main_raised"
    /\ Cardinality(get_all_responsion_numbers(tree)) = 2
    /\ Cardinality(responsion_numbers) = 2

(***************************************************************************)
(* C20.  apply_brevis_in_longo marks the final syllable with               *)
(* brevis_in_longo in every line whose final syllable is light and not a   *)
(* resolution, the line heavy, light, light of metre "4 da" included.      *)
(*                                                                         *)
(* This does not hold: a line whose metre ends in "da" and whose           *)
(* penultimate syllable is not heavy is returned as it is, and the line    *)
(* of the claim is such a line.  What the function does is                 *)
(* BrevisExceptAfterDactyl.                                                *)
(***************************************************************************)
FinalLight(l) ==
    /\ l.sylls # <<>>
    /\ l.sylls[Len(l.sylls)].weight = "light"
    /\ ~l.sylls[Len(l.sylls)].resolution

FinalMarked(l) == l.sylls # <<>> /\ l.sylls[Len(l.sylls)].brevis_in_longo

C20_FinalLightIsMarked ==
    pc = "compile_done" =>
        \A k \in DOMAIN args : FinalLight(args[k]) => FinalMarked(ret[k])

DactylicClose(l) ==
    /\ endswith_da(l.metre)
    /\ Len(l.sylls) >= 2
    /\ l.sylls[Len(l.sylls) - 1].weight # "heavy"

BrevisExceptAfterDactyl ==
    pc = "compile_done" =>
        /\ Len(ret) = Len(args)
        /\ \A k \in DOMAIN args :
              /\ FinalMarked(ret[k]) <=> (FinalLight(args[k]) /\ ~DactylicClose(args[k]))
              /\ ret[k].metre = args[k].metre
              /\ Len(ret[k].sylls) = Len(args[k].sylls)
              /\ \A j \in DOMAIN args[k].sylls :
                    ret[k].sylls[j] = args[k].sylls[j]
                       \/ (j = Len(args[k].sylls)
                             /\ ret[k].sylls[j] = add_brevis_in_longo(args[k].sylls[j]))

\* The line of the unit test: heavy, light, light with metre "4 da".
TestLineLeftUnmarked ==
    /\ pc = "compile_done"
    /\ args = << [metre |-> <<"4", " ", "d", "a">>, sylls |-> <<Heavy0, Light0, Light0>>] >>
    /\ ret = args

(***************************************************************************)
(* C21.  apply_brevis_in_longo changes at most the last syllable of each   *)
(* line.  It marks it if and only if it is light, not a resolution, and    *)
(* the line is not one whose metre ends in "da" with a penultimate         *)
(* syllable that is not heavy.  A heavy final syllable is never marked,    *)
(* and no other syllable or attribute of the line is changed.              *)
(***************************************************************************)
Unmarked(syll) == [syll EXCEPT !.brevis_in_longo = FALSE]

Rising == {"UP", "UP-G", "N"}
Falling == {"DN", "DN-A", "N"}

CountIn(position, bucket) == Cardinality({j \in DOMAIN position : position[j] \in bucket})

Compatible(c, d) == (c \in Rising /\ d \in Rising) \/ (c \in Falling /\ d \in Falling)

MutuallyCompatible(position) ==
    \A j, k \in DOMAIN position : Compatible(position[j], position[k])

C22_RatioIsLargestBucket ==
    \A k \in DOMAIN ret :
        LET position == args.position_lists[k]
        IN  /\ ret[k].den = Len(position)
            /\ ret[k].num = max(CountIn(position, Rising), CountIn(position, Falling))
            /\ ret[k].num >= 1
            /\ ret[k].num = ret[k].den <=> MutuallyCompatible(position)

RatioCountsNAsRising ==
    \A k \in DOMAIN ret :
        LET position == args.position_lists[k]
        IN  /\ ret[k].den = Len(position)
            /\ ret[k].num = max(CountIn(position, Rising), CountIn(position, {"DN", "DN-A"}))
            /\ ret[k].num >= 1
            /\ 2 * ret[k].num >= ret[k].den
            /\ ret[k].num <= ret[k].den

\* The position DN, N: compatible lines with the ratio 1/2.
CompatibleButHalf ==
    /\ pc = "comp_done"
    /\ args.position_lists[1] = <<"DN", "N">>
    /\ ret[1] = [num |-> 1, den |-> 2]

(***************************************************************************)
(* C23.  On exactly two metrically responding lines the polystrophic       *)
(* classifier records barys matches and oxys matches at the same unit      *)
(* ordinals as the pairwise classifier, whatever the shapes of the units   *)
(* (single/single, double/double, single/double).                          *)
(*                                                                         *)
(* This does not hold.  Barys: against a double unit the pairwise          *)
(* classifier gives the single syllable no predecessor, the polystrophic   *)
(* one gives it the syllable before it in the line.  Oxys: the pairwise    *)
(* classifier tests oxys for single against single only, and only when     *)
(* barys failed; the polystrophic one tests it for every unit.  The two    *)
(* agree on the barys matches of lines without double units                *)
(* (PolyBarysAgreesOnSingles).                                             *)
(***************************************************************************)
PairOrdinals(list) == { list[k].s_ord : k \in DOMAIN list }
PolyOrdinals(list) == { list[k].keys[1][2] : k \in DOMAIN list }

PairOnSameLines ==
    barys_accentually_responding_syllables_of_line_pair(
        args.lines[1], args.ns[1], args.lines[2], args.ns[2])

C23_PolyAgreesWithPairOnTwoLines ==
    (pc = "poly_done" /\ Len(args.lines) = 2) =>
        /\ ret.ok = PairOnSameLines.ok
        /\ ret.ok =>
              /\ PolyOrdinals(ret.lists[1]) = PairOrdinals(PairOnSameLines.lists[1])
              /\ PolyOrdinals(ret.lists[2]) = PairOrdinals(PairOnSameLines.lists[2])

Unresolved(line) == \A j \in DOMAIN line : ~line[j].resolution

PolyBarysAgreesOnSingles ==
    (pc = "poly_done" /\ Len(args.lines) = 2) =>
        /\ ret.ok = PairOnSameLines.ok
        /\ (ret.ok /\ Unresolved(args.lines[1]) /\ Unresolved(args.lines[2])) =>
              /\ PolyOrdinals(ret.lists[1]) = PairOrdinals(PairOnSameLines.lists[1])
              /\ PairOrdinals(PairOnSameLines.lists[2]) =
                    PolyOrdinals(ret.lists[2]) \ PolyOrdinals(ret.lists[1])

\* A double unit with a circumflex against a heavy syllable after an acute:
\* barys for the polystrophic classifier, nothing for the pairwise one.
PolyBarysPairNone ==
    /\ pc = "poly_done" /\ ret.ok
    /\ args.lines = << <<Heavy0, LightRes, LightResCircumflex>>, <<HeavyAcute, Heavy0>> >>
    /\ PolyOrdinals(ret.lists[1]) = {2}
    /\ PairOrdinals(PairOnSameLines.lists[1]) = {}

\* A double unit against a single one, both with an acute before a light
\* syllable: oxys for the polystrophic classifier only.
PolyOxysPairNone ==
    /\ pc = "poly_done" /\ ret.ok
    /\ args.lines = << <<HeavyAcute, LightRes, LightResAcute, Light0>>,
                       <<HeavyAcute, HeavyAcute, Light0>> >>
    /\ PolyOrdinals(ret.lists[1]) = {}
    /\ PolyOrdinals(ret.lists[2]) = {2}
    /\ PairOrdinals(PairOnSameLines.lists[2]) = {}

(***************************************************************************)
(* C24.  The default weight is applied consistently: in the oxys test a    *)
(* following syllable without a weight attribute counts as light, as it    *)
(* does in canonical_sylls, so an acute syllable followed by a syllable    *)
(* without weight is eligible for oxys.                                    *)
(*                                                                         *)
(* This does not hold: next_syll_is_light_or_none compares the attribute   *)
(* with 'light', and an absent attribute is not equal to it, while         *)
(* canonical_sylls gives such a syllable the weight light.                 *)
(***************************************************************************)
\* Last, or followed by a syllable that canonical_sylls takes for light.
LastOrBeforeCanonicalLight(sylls, k) ==
    k = Len(sylls) \/ canonical_sylls(<<sylls[k + 1]>>) = <<"light">>

C24_DefaultWeightIsLight ==
    pc = "oxys_fn_done" =>
        LET s1 == args.all_sylls_1
            s2 == args.all_sylls_2
        IN  ( /\ Acuted(s1[args.s_idx]) /\ Acuted(s2[args.a_idx])
              /\ LastOrBeforeCanonicalLight(s1, args.s_idx)
              /\ LastOrBeforeCanonicalLight(s2, args.a_idx) ) => ret = TRUE

\* Two syllables with an acute, the first followed by a syllable without
\* weight, the second the last of its line: not oxys.
WeightlessNextIsNotOxys ==
    /\ pc = "oxys_fn_done"
    /\ Acuted(args.all_sylls_1[args.s_idx]) /\ Acuted(args.all_sylls_2[args.a_idx])
    /\ args.s_idx < Len(args.all_sylls_1)
    /\ args.all_sylls_1[args.s_idx + 1].weight = ""
    /\ canonical_sylls(<<args.all_sylls_1[args.s_idx + 1]>>) = <<"light">>
    /\ args.a_idx = Len(args.all_sylls_2)
    /\ ret = FALSE

(***************************************************************************)
(* C25.  build_units_for_accent partitions the line: the syllables of the  *)
(* returned units, in order, are exactly the syllables of the line, each   *)
(* in one unit; a double unit is two adjacent syllables that are both      *)
(* marked as resolution; the unit_ord values are 1, 2, ..., k.             *)
(***************************************************************************)
UnitPositions(u) == IF u.type = "single" THEN <<u.syll>> ELSE <<u.syll1, u.syll2>>

RECURSIVE Flatten(_)
Flatten(units) ==
    IF units = <<>> THEN <<>> ELSE UnitPositions(Head(units)) \o Flatten(Tail(units))

C25_UnitsPartitionTheLine ==
    pc = "units_done" =>
        /\ Flatten(ret) = [p \in 1..Len(lineA) |-> p]
        /\ \A k \in DOMAIN ret :
              /\ ret[k].unit_ord = k
              /\ ret[k].type \in {"single", "double"}
              /\ ret[k].type = "double" =>
                    /\ ret[k].syll2 = ret[k].syll1 + 1
                    /\ lineA[ret[k].syll1].resolution
                    /\ lineA[ret[k].syll2].resolution
        /\ ret = build_units_for_accent(lineA, StropheLineN)

\* A line of four syllables in three units: a double unit in the middle.
C25_Witness ==
    /\ pc = "units_done"
    /\ Len(lineA) = 4
    /\ Len(ret) = 3
    /\ ret[2].type = "double"
    /\ lineA[4].resolution

(***************************************************************************)
(* C26.  barys_responsion is separable: it is true of two syllables iff    *)
(* each of them, with its own predecessor, is a potential barys as         *)
(* count_all_barys_oxys counts it (circumflex, or heavy after an acute).   *)
(* Hence a third syllable that responds with the first of two responding   *)
(* syllables responds with the second as well: testing against the first   *)
(* line only is testing all pairs.                                         *)
(***************************************************************************)
\* Third syllables with their predecessors: potential barys in both ways,
\* and not.
ThirdSylls ==
    { [syll |-> Syll("light", FALSE, FALSE, FALSE, FALSE, {"circumflex"}), prev |-> None],
      [syll |-> Heavy0, prev |-> Some(HeavyAcute)],
      [syll |-> Heavy0, prev |-> None],
      [syll |-> Light0, prev |-> Some(HeavyAcute)] }

C26_BarysIsSeparable ==
    pc = "barys_fn_done" =>
        /\ ret = ( /\ potential_barys(args.syll1, args.prev_syll1)
                   /\ potential_barys(args.syll2, args.prev_syll2) )
        /\ \A t \in ThirdSylls :
              LET with_first == barys_responsion(t.syll, args.syll1, t.prev, args.prev_syll1)
                  with_second == barys_responsion(t.syll, args.syll2, t.prev, args.prev_syll2)
              IN  (ret /\ with_first) <=> (ret /\ with_second /\ with_first)

\* A circumflex on one side, a heavy syllable after an acute on the other.
C26_Witness ==
    /\ pc = "barys_fn_done"
    /\ ret = TRUE
    /\ Circumflexed(args.syll1) /\ ~Heavy(args.syll1)
    /\ ~Circumflexed(args.syll2) /\ Heavy(args.syll2) /\ AcuteBefore(args.prev_syll2)

(***************************************************************************)
(* C27.  The numerator never exceeds the denominator: for every document   *)
(* whose syllables are children of their lines, the barys matches and the  *)
(* oxys matches of the pairwise classifier over all strophe pairs are at   *)
(* most the potential barys and the potential oxys of count_all_barys_oxys *)
(* for that document, so no reported percentage exceeds 100%.              *)
(*                                                                         *)
(* This holds for barys (BarysWithinPotential) and not for oxys: the       *)
(* classifier takes "last or followed by a light syllable" within the      *)
(* line, count_all_barys_oxys within the strophe, where the last syllable  *)
(* of a line is followed by the first of the next line.                    *)
(***************************************************************************)
C27_MatchesWithinPotential ==
    pc = "summary_totals" =>
        /\ barys_totals.barys <= ret.barys
        /\ barys_totals.oxys <= ret.oxys

BarysWithinPotential ==
    pc = "summary_totals" => 2 * barys_totals.barys <= ret.barys

\* Three lines of one syllable with an acute, the second and third heavy:
\* three oxys matches, two potential oxys (150%).
MoreOxysThanPotential ==
    /\ pc = "summary_totals"
    /\ tree[1].lines = << <<LightAcute>>, <<HeavyAcute>>, <<HeavyAcute>> >>
    /\ tree[2].lines = tree[1].lines
    /\ barys_totals.oxys = 3
    /\ ret.oxys = 2

(***************************************************************************)
(* C28.  The two denominators agree: in a document where every syllable    *)
(* is in one strophe with a responsion, count_all_barys_oxys(tree) is, for *)
(* barys and for oxys, the sum over the responsions r of                   *)
(* count_all_barys_oxys_canticum(tree, r).                                 *)
(*                                                                         *)
(* This holds for oxys (OxysDenominatorsAgree) and not for barys:          *)
(* count_all_barys_oxys takes the predecessor of a syllable from the whole *)
(* document, the per-canticum count from the syllable's own line_sylls, so *)
(* a heavy syllable at the head of a strophe that follows an acute is      *)
(* counted by the first only.                                              *)
(***************************************************************************)
RECURSIVE SumOver(_, _, _)
SumOver(summaries, rs, key) ==
    IF rs = {} THEN 0
    ELSE LET r == CHOOSE x \in rs : TRUE
         IN  summaries[r][key] + SumOver(summaries, rs \ {r}, key)

C28_DenominatorsAgree ==
    pc = "count_done" =>
        /\ DOMAIN barys_summaries = get_all_responsion_numbers(tree)
        /\ ret.barys = SumOver(barys_summaries, DOMAIN barys_summaries, "barys")
        /\ ret.oxys = SumOver(barys_summaries, DOMAIN barys_summaries, "oxys")

OxysDenominatorsAgree ==
    pc = "count_done" =>
        /\ DOMAIN barys_summaries = get_all_responsion_numbers(tree)
        /\ ret.oxys = SumOver(barys_summaries, DOMAIN barys_summaries, "oxys")
        /\ ret.barys >= SumOver(barys_summaries, DOMAIN barys_summaries, "barys")

\* A strophe and an antistrophe of the one line heavy with acute: the
\* second syllable of the document is a potential barys of the document,
\* and of no canticum.
DenominatorsDiffer ==
    /\ pc = "count_done"
    /\ tree[1].lines = << <<HeavyAcute>> >>
    /\ tree[2].lines = << <<HeavyAcute>> >>
    /\ tree[1].responsion = tree[2].responsion
    /\ ret.barys = 1
    /\ SumOver(barys_summaries, DOMAIN barys_summaries, "barys") = 0

(***************************************************************************)
(* C29.  The cursor loops of canonical_sylls and build_units_for_accent    *)
(* terminate on every line: at every iteration the cursor i grows by 1 or  *)
(* by 2, it stays within 0..len(syllables), no syllable at or after        *)
(* len(syllables) is read (an advance by 2 is made only when the syllable  *)
(* at i + 1 exists), and the loop ends with i = len(syllables).            *)
(***************************************************************************)
CursorLoopRunning == pc \in {"canon_loop", "units_loop"}
CursorLoopDone == pc \in {"canon_done", "units_done"}

CursorWithinLine == i >= 0 /\ i <= Len(lineA)

CursorAdvances ==
    (CursorLoopRunning /\ pc' = pc) =>
        /\ i < Len(lineA)
        /\ i' \in {i + 1, i + 2}
        /\ i' = i + 2 => i + 1 < Len(lineA)

C29_CursorLoopsTerminate ==
    /\ [](CursorWithinLine)
    /\ [][CursorAdvances]_vars
    /\ [](CursorLoopDone => i = Len(lineA))
    /\ <>CursorLoopDone

\* A loop of build_units_for_accent that ended with an advance by 2.
C29_Witness ==
    /\ pc = "units_done"
    /\ Len(lineA) = 3
    /\ ret[Len(ret)].type = "double"
    /\ i = Len(lineA)

(***************************************************************************)
(* C30.  Aggregation is a sum: after the argument loop has processed a     *)
(* sequence of canticum arguments, the barys and oxys totals are the sums  *)
(* of the barys and oxys matches of the processed cantica, as              *)
(* overall_counts is the sum of their acute, grave and circumflex counts.  *)
(*                                                                         *)
(* This holds of overall_counts (OverallCountsAreSums) and not of the      *)
(* barys and oxys totals: the canticum branch assigns the counts of the    *)
(* canticum to total_barys and total_oxys instead of adding them, so the   *)
(* totals are those of the last canticum.                                  *)
(***************************************************************************)
RECURSIVE SumOfArgs(_, _)
SumOfArgs(k, count) ==
    IF k = 0 THEN 0 ELSE count[args.args[k]] + SumOfArgs(k - 1, count)

BarysOf == [r \in Responsions |-> process_barys_responsions(tree, r).counts.barys]
OxysOf == [r \in Responsions |-> process_barys_responsions(tree, r).counts.oxys]
AcuteOf == [r \in Responsions |-> args.file_overall[r].acute]
GraveOf == [r \in Responsions |-> args.file_overall[r].grave]
CircumflexOf == [r \in Responsions |-> args.file_overall[r].circumflex]

OverallCountsAreSums ==
    pc \in {"args_loop", "args_done"} =>
        /\ overall_counts.acute = SumOfArgs(i, AcuteOf)
        /\ overall_counts.grave = SumOfArgs(i, GraveOf)
        /\ overall_counts.circumflex = SumOfArgs(i, CircumflexOf)

C30_TotalsAreSums ==
    pc = "args_done" =>
        /\ barys_totals.barys = SumOfArgs(Len(args.args), BarysOf)
        /\ barys_totals.oxys = SumOfArgs(Len(args.args), OxysOf)
        /\ OverallCountsAreSums

\* Totals of the last canticum only.
TotalsOfLastCanticum ==
    (pc = "args_done") =>
        /\ barys_totals.barys = BarysOf[args.args[Len(args.args)]]
        /\ barys_totals.oxys = OxysOf[args.args[Len(args.args)]]

\* Two cantica, the first with a barys and an oxys match, the second with
\* a single strophe: the totals are zero.
FirstCanticumForgotten ==
    /\ pc = "args_done"
    /\ args.args = <<"r1", "r2">>
    /\ BarysOf["r1"] = 1 /\ OxysOf["r1"] = 1
    /\ barys_totals = ZeroBarys
====
